---- MODULE Spec2Model ----
(***************************************************************************)
(* Model of the toolRAG retrieval core: chunking and ingestion             *)
(* (loadDocumentsFromDataDir), the batched embedding client                *)
(* (hfEmbedder.Embed), the BM25 lexical index (NewBM25Index, Search),     *)
(* Reciprocal Rank Fusion (rrfFuseIDs) and retrieval at query time         *)
(* (vectorRetrieve, hybridRetrieve, queryInternalKnowledge).               *)
(*                                                                         *)
(* Strings are sequences of one-character strings.  sha256 is modelled as  *)
(* an injective function: an id is the string that is hashed.              *)
(***************************************************************************)
EXTENDS Integers, Sequences, FiniteSets, TLC

VARIABLES
  \* ---- the file system and configuration read by ingestion
  dirExists,       \* whether RAG_DATA_DIR exists
  disk,            \* entries of RAG_DATA_DIR in WalkDir (lexical) order
  chunkLength,     \* currentConfig.ChunkLength
  \* ---- one process running loadDocumentsFromDataDir
  pc,              \* "start" | "walk" | "done"
  entryIdx,        \* number of entries the walk has visited
  corpus,          \* var corpus []BM25Doc
  documentChunks,  \* documentChunks counter
  ret,             \* "none" | "ok" | "err": what loadDocumentsFromDataDir returned
  run,             \* number of the process invocation
  bm25Index,       \* the global bm25Index (Nil or an index)
  ragDocs,         \* the external rag_docs collection: id -> record
  ragDocsCollection,   \* the global handle of rag_docs (Nil or a handle)
  hfEmbedderConcrete,  \* the global embedder (Nil or an embedder)
  \* ---- history of the current run (observed calls)
  upsertLog,       \* sequence of [id, ok]: c.Upsert calls of this run
  visitLog,        \* sequence of [path, outcome, ids]: callbacks of this run
  \* ---- a call of Embed on an Embedder
  eImpl,           \* "none" | "hfEmbedder" | "teiEmbedder": the receiver's type
  eChunks, eBatch, eReplies, eRes,
  \* ---- a call of BM25Index.Search
  sQuery, sK, sRes,
  \* ---- a call of rrfFuseIDs, and a second execution of the same call
  fA, fB, fRes, fRes2,
  \* ---- retrieval at query time
  conversationCollection,  \* the global handle of conversation_memory
  convDocs,        \* the external conversation_memory collection: id -> record
  qFn,             \* "none" | "vector" | "hybrid" | "qik": the function called
  qQuery, qK,      \* its arguments
  qEnv,            \* what the embedding provider and the store did during the call
  qRes,            \* what the call returned
  \* ---- a call of chunkText
  cText, cSize, cRes,
  \* ---- two calls of stableID
  idA, idB, idRes,
  \* ---- history across processes
  lastCleanRun,    \* the store and index a failure-free previous process left
  \* ---- the run of main
  mainPc,          \* where main is: "start" | "ingest" | "agent" | "store" | "exited" | "fatal"
  mainEnv,         \* the configuration, arguments and services main finds
  storeCall        \* what the call of storeConversationHistory did

vars == <<dirExists, disk, chunkLength, pc, entryIdx, corpus, documentChunks, ret, run,
          bm25Index, ragDocs, ragDocsCollection, hfEmbedderConcrete,
          upsertLog, visitLog,
          eImpl, eChunks, eBatch, eReplies, eRes, sQuery, sK, sRes, fA, fB, fRes, fRes2,
          conversationCollection, convDocs, qFn, qQuery, qK, qEnv, qRes,
          cText, cSize, cRes, idA, idB, idRes, lastCleanRun,
          mainPc, mainEnv, storeCall>>

ingestVars == <<dirExists, disk, chunkLength, pc, entryIdx, corpus, documentChunks, ret,
                run, ragDocs, ragDocsCollection, hfEmbedderConcrete,
                upsertLog, visitLog, lastCleanRun>>
embedVars  == <<eImpl, eChunks, eBatch, eReplies, eRes>>
searchVars == <<sQuery, sK, sRes>>
fuseVars   == <<fA, fB, fRes, fRes2>>
queryVars  == <<conversationCollection, convDocs, qFn, qQuery, qK, qEnv, qRes>>
chunkVars  == <<cText, cSize, cRes>>
idVars     == <<idA, idB, idRes>>
mainVars   == <<mainPc, mainEnv, storeCall>>

\* A Go nil (pointer, slice, map, interface) is Nil; a non-nil pointer, map
\* or handle x is Some(x); "no call made yet" is Nil as well.
Nil == <<>>
Some(x) == <<x>>
Val(p) == p[1]

\* ------------------------------------------------------------------ bounds
MaxFiles   == 2   \* files below the data directory
MaxRuns    == 2   \* process invocations
MaxChunks  == 4   \* chunks passed to one Embed call
MaxBatch   == 3   \* small batch sizes tried besides 64
MaxDocs    == 3   \* documents of a BM25 corpus
MaxDocLen  == 1   \* words of a generated document text
MaxListLen == 3   \* ids of a ranked list passed to rrfFuseIDs

\* ------------------------------------------------------- generic helpers
Range(s) == {s[i] : i \in 1..Len(s)}

Min(a, b) == IF a < b THEN a ELSE b

RECURSIVE Flatten(_)
Flatten(ss) == IF ss = <<>> THEN <<>> ELSE Head(ss) \o Flatten(Tail(ss))

\* ------------------------------------------------------------ characters
Letters    == {"a", "b", "g", "r", "x", "y", "z"}
Uppers     == {"X", "Y"}
Digits     == {"0", "1", "2", "3", "4", "5", "6", "7", "8", "9"}
WhiteSpace == {" ", "\n", "\t"}

\* unicode.IsSpace, as used by strings.TrimSpace and strings.Fields
IsSpace(c) == c \in WhiteSpace

\* strings.ToLower on one character
ToLowerCh(c) == IF c = "X" THEN "x" ELSE IF c = "Y" THEN "y" ELSE c

\* the complement of the class [^\p{L}\p{N}]
IsWordCh(c) == c \in Letters \cup Uppers \cup Digits

ToLower(s) == [i \in 1..Len(s) |-> ToLowerCh(s[i])]

RECURSIVE TrimLeft(_)
TrimLeft(s) ==
  IF s = <<>> THEN <<>>
  ELSE IF IsSpace(Head(s)) THEN TrimLeft(Tail(s)) ELSE s

RECURSIVE TrimRight(_)
TrimRight(s) ==
  IF s = <<>> THEN <<>>
  ELSE IF IsSpace(s[Len(s)]) THEN TrimRight(SubSeq(s, 1, Len(s) - 1)) ELSE s

\* strings.TrimSpace
TrimSpace(s) == TrimRight(TrimLeft(s))

\* strings.Split(s, "\n\n"): cut at the leftmost non-overlapping separators
RECURSIVE SplitParas(_, _)
SplitParas(s, cur) ==
  IF s = <<>> THEN <<cur>>
  ELSE IF Len(s) >= 2 /\ s[1] = "\n" /\ s[2] = "\n"
       THEN <<cur>> \o SplitParas(SubSeq(s, 3, Len(s)), <<>>)
       ELSE SplitParas(Tail(s), Append(cur, Head(s)))

\* fmt.Sprintf("%d", i) for i >= 0
RECURSIVE FmtD(_)
FmtD(i) ==
  LET d == <<"0", "1", "2", "3", "4", "5", "6", "7", "8", "9">>
  IN IF i < 10 THEN <<d[i + 1]>> ELSE FmtD(i \div 10) \o <<d[(i % 10) + 1]>>

\* strings.Join(parts, "|")
RECURSIVE JoinBar(_)
JoinBar(parts) ==
  IF parts = <<>> THEN <<>>
  ELSE IF Len(parts) = 1 THEN parts[1]
  ELSE parts[1] \o <<"|">> \o JoinBar(Tail(parts))

\* stableID: the hex sha256 of the joined parts; the hash is injective here
stableID(parts) == JoinBar(parts)

\* ------------------------------------------------------------- chunkText
DefaultChunkSize == 800

\* HardWrap without the TrimSpace of the remainder
RECURSIVE HardWrapNoTrim(_, _)
HardWrapNoTrim(p, chunkSize) ==
  IF Len(p) > chunkSize
  THEN <<TrimSpace(SubSeq(p, 1, chunkSize))>>
       \o HardWrapNoTrim(SubSeq(p, chunkSize + 1, Len(p)), chunkSize)
  ELSE IF p # <<>> THEN <<p>> ELSE <<>>

\* the inner loop "for len(p) > chunkSize" and the final append
RECURSIVE HardWrap(_, _)
HardWrap(p, chunkSize) ==
  IF Len(p) > chunkSize
  THEN <<TrimSpace(SubSeq(p, 1, chunkSize))>>
       \o HardWrap(TrimSpace(SubSeq(p, chunkSize + 1, Len(p))), chunkSize)
  ELSE IF p # <<>> THEN <<p>> ELSE <<>>

\* ChunkParas returning after the first paragraph
ChunkParasFirstOnly(paras, chunkSize) ==
  IF paras = <<>> THEN <<>>
  ELSE LET p == TrimSpace(Head(paras))
       IN IF p = <<>> THEN <<>> ELSE HardWrap(p, chunkSize)

RECURSIVE ChunkParas(_, _)
ChunkParas(paras, chunkSize) ==
  IF paras = <<>> THEN <<>>
  ELSE LET p == TrimSpace(Head(paras))
       IN (IF p = <<>> THEN <<>> ELSE HardWrap(p, chunkSize))
          \o ChunkParas(Tail(paras), chunkSize)

chunkText(text0, chunkSize0) ==
  LET chunkSize == IF chunkSize0 <= 0 THEN DefaultChunkSize ELSE chunkSize0
      text == TrimSpace(text0)
  IN IF text = <<>> THEN <<>>
     ELSE ChunkParas(SplitParas(text, <<>>), chunkSize)

\* ---------------------------------------------------------------- Go maps
\* m[k] on a map with an integer value type: the zero value when k is absent
MapGet(m, k) == IF k \in DOMAIN m THEN m[k] ELSE 0

MapPut(m, k, v) == [x \in (DOMAIN m) \cup {k} |-> IF x = k THEN v ELSE m[x]]

EmptyMap == [x \in {} |-> 0]

\* ------------------------------------------------------------ sort.Slice
\* insertionSortLessFunc: what sort.Slice runs on slices of at most 12 items
InsertionSortLimit == 12

\* The comparison function less is passed as the relation it computes on the
\* elements of the slice: <<x, y>> \in less iff less(x, y).
RECURSIVE InsertLast(_, _, _)
InsertLast(s, x, less) ==
  IF s = <<>> THEN <<x>>
  ELSE IF <<x, s[Len(s)]>> \in less
       THEN Append(InsertLast(SubSeq(s, 1, Len(s) - 1), x, less), s[Len(s)])
       ELSE Append(s, x)

RECURSIVE InsertionSort(_, _)
InsertionSort(s, less) ==
  IF s = <<>> THEN <<>>
  ELSE InsertLast(InsertionSort(SubSeq(s, 1, Len(s) - 1), less), s[Len(s)], less)

RECURSIVE Perms(_)
Perms(S) ==
  IF S = {} THEN {<<>>}
  ELSE UNION {{<<x>> \o p : p \in Perms(S \ {x})} : x \in S}

\* sort.Slice left out: the slice stays as it was filled
SortSliceOmitted(s, less) == {s}

\* The results sort.Slice can produce: the insertion sort (stable) up to 12
\* items; beyond that pdqsort, which only promises a sorted permutation.
RECURSIVE SortedOrders(_, _, _)
SortedOrders(s, I, less) ==
  IF I = {} THEN {<<>>}
  ELSE UNION {{<<s[i]>> \o t : t \in SortedOrders(s, I \ {i}, less)} :
                i \in {j \in I : \A h \in I : <<s[h], s[j]>> \notin less}}

SortSlice(s, less) ==
  IF Len(s) <= InsertionSortLimit
  THEN {InsertionSort(s, less)}
  ELSE SortedOrders(s, 1..Len(s), less)

\* ---------------------------------------------------------------- tokenize
\* nonWord.ReplaceAllString(s, " "): each maximal run of non-word characters
\* becomes one space
RECURSIVE DropNonWord(_)
DropNonWord(s) ==
  IF s = <<>> THEN <<>>
  ELSE IF IsWordCh(Head(s)) THEN s ELSE DropNonWord(Tail(s))

RECURSIVE ReplaceNonWord(_)
ReplaceNonWord(s) ==
  IF s = <<>> THEN <<>>
  ELSE IF IsWordCh(Head(s)) THEN <<Head(s)>> \o ReplaceNonWord(Tail(s))
  ELSE <<" ">> \o ReplaceNonWord(DropNonWord(Tail(s)))

\* strings.Fields: the maximal runs of non-space characters
RECURSIVE Fields(_, _)
Fields(s, cur) ==
  IF s = <<>> THEN (IF cur = <<>> THEN <<>> ELSE <<cur>>)
  ELSE IF IsSpace(Head(s))
       THEN (IF cur = <<>> THEN <<>> ELSE <<cur>>) \o Fields(Tail(s), <<>>)
       ELSE Fields(Tail(s), Append(cur, Head(s)))

tokenize(s) == Fields(ReplaceNonWord(ToLower(s)), <<>>)

\* -------------------------------------------------------------- BM25Index
\* term frequencies of one document: the map tf of the build loop
TermFreq(tokens) ==
  [t \in Range(tokens) |-> Cardinality({i \in 1..Len(tokens) : tokens[i] = t})]

RECURSIVE SumSeq(_)
SumSeq(s) == IF s = <<>> THEN 0 ELSE Head(s) + SumSeq(Tail(s))

\* NewBM25Index with the loop over docs starting at the second document
NewBM25IndexSkipFirst(docs) ==
  LET rest == IF docs = <<>> THEN <<>> ELSE Tail(docs)
      toks == [i \in 1..Len(rest) |-> tokenize(rest[i].Text)]
      vocab == UNION {Range(toks[i]) : i \in 1..Len(rest)}
      totalLen == SumSeq([i \in 1..Len(rest) |-> Len(toks[i])])
  IN [docs      |-> rest,
      tf        |-> [i \in 1..Len(rest) |-> TermFreq(toks[i])],
      docLen    |-> [i \in 1..Len(rest) |-> Len(toks[i])],
      df        |-> [t \in vocab |->
                       Cardinality({i \in 1..Len(rest) : t \in Range(toks[i])})],
      avgDocLen |-> IF Len(rest) > 0 THEN <<totalLen, Len(rest)>> ELSE <<0, 1>>]

\* avgDocLen is the float totalLen / len(docs); it is kept as that fraction
NewBM25Index(docs) ==
  LET toks == [i \in 1..Len(docs) |-> tokenize(docs[i].Text)]
      vocab == UNION {Range(toks[i]) : i \in 1..Len(docs)}
      totalLen == SumSeq([i \in 1..Len(docs) |-> Len(toks[i])])
  IN [docs      |-> docs,
      tf        |-> [i \in 1..Len(docs) |-> TermFreq(toks[i])],
      docLen    |-> [i \in 1..Len(docs) |-> Len(toks[i])],
      df        |-> [t \in vocab |->
                       Cardinality({i \in 1..Len(docs) : t \in Range(toks[i])})],
      avgDocLen |-> IF Len(docs) > 0 THEN <<totalLen, Len(docs)>> ELSE <<0, 1>>]

\* Scores are float64 in the source; here they are fixed-point numbers with
\* LnScale units per 1.0, truncated.
LnScale == 100000

\* math.Log(p/q) for p >= q > 0, by ln r = 2 atanh((r-1)/(r+1))
RECURSIVE AtanhSeries(_, _, _, _)
AtanhSeries(term, n, num2, den2) ==
  IF term = 0 THEN 0
  ELSE (term \div n) + AtanhSeries((term * num2) \div den2, n + 2, num2, den2)

LnFix(p, q) ==
  AtanhSeries((2 * LnScale * (p - q)) \div (p + q), 1,
              (p - q) * (p - q), (p + q) * (p + q))

k1 == <<3, 2>>   \* k1 := 1.5
b  == <<3, 4>>   \* b := 0.75

\* idf := math.Log(1.0 + (N-df+0.5)/(df+0.5)), i.e. ln((2N+2)/(2df+1))
Idf(N, df) == LnFix(2 * N + 2, 2 * df + 1)

\* idf * (f * (k1 + 1.0) / den) with den := f + k1*(1.0-b+b*(dl/avgDocLen)),
\* for f > 0; with avgDocLen = T/n the quotient is the exact fraction below
TermScore(idx, i, t) ==
  LET f  == MapGet(idx.tf[i], t)
      dl == idx.docLen[i]
      N  == Len(idx.docs)
      T  == idx.avgDocLen[1]
      n  == idx.avgDocLen[2]
      num == f * (k1[1] + k1[2]) * b[2] * T
      den == f * k1[2] * b[2] * T
             + k1[1] * ((b[2] - b[1]) * T + b[1] * dl * n)
  IN IF f = 0 THEN 0
     ELSE (Idf(N, MapGet(idx.df, t)) * num) \div den

RECURSIVE DocScore(_, _, _)
DocScore(idx, i, qTokens) ==
  IF qTokens = <<>> THEN 0
  ELSE TermScore(idx, i, Head(qTokens)) + DocScore(idx, i, Tail(qTokens))

\* Scored with "score >= 0" as the test that retains a document
RECURSIVE ScoredNonNegative(_, _, _)
ScoredNonNegative(idx, i, qTokens) ==
  IF i > Len(idx.docs) THEN <<>>
  ELSE LET score == DocScore(idx, i, qTokens)
       IN (IF score >= 0 THEN <<[id |-> idx.docs[i].ID, score |-> score]>>
           ELSE <<>>)
          \o ScoredNonNegative(idx, i + 1, qTokens)

\* the slice scores before it is sorted: the documents with score > 0
RECURSIVE Scored(_, _, _)
Scored(idx, i, qTokens) ==
  IF i > Len(idx.docs) THEN <<>>
  ELSE LET score == DocScore(idx, i, qTokens)
       IN (IF score > 0 THEN <<[id |-> idx.docs[i].ID, score |-> score]>>
           ELSE <<>>)
          \o Scored(idx, i + 1, qTokens)

\* the comparison with "<" in place of ">"
ScoreLess(s) == {<<x, y>> \in Range(s) \X Range(s) : x.score < y.score}

\* func(i, j int) bool { return scores[i].score > scores[j].score }
ScoreGreater(s) == {<<x, y>> \in Range(s) \X Range(s) : x.score > y.score}

\* a result: the ids returned, or the panic of make([]string, 0, k), k < 0
Returned(ids) == [panic |-> FALSE, ids |-> ids]
Panicked == [panic |-> TRUE, ids |-> <<>>]

\* Search without the early return for a query that has no tokens
SearchNoQueryCheck(idxp, query, k) ==
  IF idxp = Nil \/ Len(Val(idxp).docs) = 0 THEN {Returned(<<>>)}
  ELSE LET idx == Val(idxp)
           qTokens == tokenize(query)
       IN IF k < 0 THEN {Panicked}
          ELSE LET scores == Scored(idx, 1, qTokens)
               IN {Returned([i \in 1..Min(k, Len(s)) |-> s[i].id]) :
                     s \in SortSlice(scores, ScoreGreater(scores))}

\* BM25Index.Search on the pointer idxp: the set of results the call can
\* produce
Search(idxp, query, k) ==
  IF idxp = Nil \/ Len(Val(idxp).docs) = 0 THEN {Returned(<<>>)}
  ELSE LET idx == Val(idxp)
           qTokens == tokenize(query)
       IN IF Len(qTokens) = 0 THEN {Returned(<<>>)}
          ELSE IF k < 0 THEN {Panicked}
          ELSE LET scores == Scored(idx, 1, qTokens)
               IN {Returned([i \in 1..Min(k, Len(s)) |-> s[i].id]) :
                     s \in SortSlice(scores, ScoreGreater(scores))}

\* ------------------------------------------------------- hfEmbedder.Embed
EmbedBatchSize == 64   \* batch: 64 in NewEmbedderFromEnv

\* What the provider does with one request:
\*   "transport": client.Do fails (network error, cancelled context);
\*   "non200":    a response whose status is not 200;
\*   "decode":    a 200 response whose body does not decode;
\*   "ok", "short", "long": a decoded array with as many vectors as inputs,
\*                one fewer, one more.
ReplyKinds == {"ok", "short", "long", "transport", "non200", "decode"}

\* the vector the provider computes for a text
Vec(text) == <<"vec", text>>

\* the decoded body rb of a reply to the request carrying inputs
ReplyBody(kind, inputs) ==
  LET n == IF kind = "short" THEN Len(inputs) - 1
           ELSE IF kind = "long" THEN Len(inputs) + 1
           ELSE Len(inputs)
  IN [i \in 1..n |-> IF i <= Len(inputs) THEN Vec(inputs[i]) ELSE Vec(<<>>)]

\* for k, c := range batch { out[c.ID] = vec }: the assignments are made in
\* order, so an id that occurs twice in the batch keeps its last vector
PutBatch(out, batch, rb) ==
  LET ids == {batch[k].ID : k \in 1..Len(batch)}
      Last(id) == CHOOSE k \in 1..Len(batch) :
                    /\ batch[k].ID = id
                    /\ \A l \in (k + 1)..Len(batch) : batch[l].ID # id
  IN [id \in (DOMAIN out) \cup ids |->
        IF id \in ids THEN rb[Last(id)] ELSE out[id]]

\* EmbedLoop returning the map filled so far when a batch fails
RECURSIVE EmbedLoopPartial(_, _, _, _, _, _)
EmbedLoopPartial(chunks, batchSize, replies, i, out, requests) ==
  IF i >= Len(chunks)
  THEN [err |-> FALSE, out |-> Some(out), requests |-> requests]
  ELSE LET j      == Min(i + batchSize, Len(chunks))
           batch  == SubSeq(chunks, i + 1, j)
           inputs == [k \in 1..Len(batch) |-> batch[k].Text]
           sent   == Append(requests, inputs)
           kind   == replies[Len(sent)]
           rb     == ReplyBody(kind, inputs)
           fail   == [err |-> TRUE, out |-> Some(out), requests |-> sent]
       IN IF kind = "transport" THEN fail
          ELSE IF kind = "non200" \/ kind = "decode" THEN fail
          ELSE IF Len(rb) # Len(batch) THEN fail
          ELSE EmbedLoopPartial(chunks, batchSize, replies, j,
                                PutBatch(out, batch, rb), sent)

\* EmbedLoop with the "if i > 1 { break }" of teiEmbedder.Embed
RECURSIVE EmbedLoopFirstBatchOnly(_, _, _, _, _, _)
EmbedLoopFirstBatchOnly(chunks, batchSize, replies, i, out, requests) ==
  IF i >= Len(chunks) \/ i > 1
  THEN [err |-> FALSE, out |-> Some(out), requests |-> requests]
  ELSE LET j      == Min(i + batchSize, Len(chunks))
           batch  == SubSeq(chunks, i + 1, j)
           inputs == [k \in 1..Len(batch) |-> batch[k].Text]
           sent   == Append(requests, inputs)
           kind   == replies[Len(sent)]
           rb     == ReplyBody(kind, inputs)
           fail   == [err |-> TRUE, out |-> Nil, requests |-> sent]
       IN IF kind = "transport" THEN fail
          ELSE IF kind = "non200" \/ kind = "decode" THEN fail
          ELSE IF Len(rb) # Len(batch) THEN fail
          ELSE EmbedLoopFirstBatchOnly(chunks, batchSize, replies, j,
                                       PutBatch(out, batch, rb), sent)

\* the loop "for i := 0; i < len(chunks); i += h.batch"; i is 0-based,
\* requests is the list of inputs sent so far
RECURSIVE EmbedLoop(_, _, _, _, _, _)
EmbedLoop(chunks, batchSize, replies, i, out, requests) ==
  IF i >= Len(chunks)
  THEN [err |-> FALSE, out |-> Some(out), requests |-> requests]
  ELSE LET j      == Min(i + batchSize, Len(chunks))
           batch  == SubSeq(chunks, i + 1, j)
           inputs == [k \in 1..Len(batch) |-> batch[k].Text]
           sent   == Append(requests, inputs)
           kind   == replies[Len(sent)]
           rb     == ReplyBody(kind, inputs)
           fail   == [err |-> TRUE, out |-> Nil, requests |-> sent]
       IN IF kind = "transport" THEN fail
          ELSE IF kind = "non200" \/ kind = "decode" THEN fail
          ELSE IF Len(rb) # Len(batch) THEN fail
          ELSE EmbedLoop(chunks, batchSize, replies, j,
                         PutBatch(out, batch, rb), sent)

Embed(chunks, batchSize, replies) ==
  IF Len(chunks) = 0
  THEN [err |-> FALSE, out |-> Some(EmptyMap), requests |-> <<>>]
  ELSE EmbedLoop(chunks, batchSize, replies, 0, EmptyMap, <<>>)

\* ------------------------------------------------------ teiEmbedder.Embed
\* the loop "for i := 0; i < len(chunks); i += t.batch" with its
\* "if i > 1 { break }"
RECURSIVE teiEmbedLoop(_, _, _, _, _, _)
teiEmbedLoop(chunks, batchSize, replies, i, out, requests) ==
  IF i >= Len(chunks)
  THEN [err |-> FALSE, out |-> Some(out), requests |-> requests]
  ELSE IF i > 1
  THEN [err |-> FALSE, out |-> Some(out), requests |-> requests]
  ELSE LET j      == Min(i + batchSize, Len(chunks))
           batch  == SubSeq(chunks, i + 1, j)
           inputs == [k \in 1..Len(batch) |-> batch[k].Text]
           sent   == Append(requests, inputs)
           kind   == replies[Len(sent)]
           rb     == ReplyBody(kind, inputs)
           fail   == [err |-> TRUE, out |-> Nil, requests |-> sent]
       IN IF kind = "transport" THEN fail
          ELSE IF kind = "non200" \/ kind = "decode" THEN fail
          ELSE IF Len(rb) # Len(batch) THEN fail
          ELSE teiEmbedLoop(chunks, batchSize, replies, j,
                            PutBatch(out, batch, rb), sent)

teiEmbed(chunks, batchSize, replies) ==
  IF Len(chunks) = 0
  THEN [err |-> FALSE, out |-> Some(EmptyMap), requests |-> <<>>]
  ELSE teiEmbedLoop(chunks, batchSize, replies, 0, EmptyMap, <<>>)

\* the number of requests a call sends when every batch succeeds
NumBatches(n, batchSize) == (n + batchSize - 1) \div batchSize

\* -------------------------------------------------------------- rrfFuseIDs
\* a fused score is the exact fraction <<numerator, denominator>>
RatAdd(x, y) == <<x[1] * y[2] + y[1] * x[2], x[2] * y[2]>>
RatGreater(x, y) == x[1] * y[2] > y[1] * x[2]
RatZero == <<0, 1>>

MapGetRat(m, id) == IF id \in DOMAIN m THEN m[id] ELSE RatZero

\* AddList with "=" in place of "+=": a later list overwrites the score
RECURSIVE AddListOverwrite(_, _, _, _)
AddListOverwrite(score, list, i, k) ==
  IF i >= Len(list) THEN score
  ELSE AddListOverwrite(MapPut(score, list[i + 1], <<1, k + i + 1>>),
                        list, i + 1, k)

\* add := func(list) { for i, id := range list { score[id] += 1/(k+i+1) } }
RECURSIVE AddList(_, _, _, _)
AddList(score, list, i, k) ==
  IF i >= Len(list) THEN score
  ELSE AddList(MapPut(score, list[i + 1],
                      RatAdd(MapGetRat(score, list[i + 1]), <<1, k + i + 1>>)),
               list, i + 1, k)

\* FusedScore without add(a): the lexical list is left out of the fusion
FusedScoreVectorOnly(a, b0, k) == AddList(EmptyMap, b0, 0, k)

FusedScore(a, b0, k) == AddList(AddList(EmptyMap, a, 0, k), b0, 0, k)

\* rrfFuseIDs: the set of results the call can produce.  uniq is filled by
\* ranging over the map score, whose iteration order Go leaves unspecified,
\* and is then sorted by sort.Slice.
rrfFuseIDs(a, b0, k) ==
  LET score == FusedScore(a, b0, k)
      less  == {<<x, y>> \in (DOMAIN score) \X (DOMAIN score) :
                  RatGreater(score[x], score[y])}
  IN UNION {SortSlice(uniq, less) : uniq \in Perms(DOMAIN score)}

RRFK == 60   \* rrfFuseIDs(lexIDs, ..., 60) in hybridRetrieve

\* ------------------------------------------------------------ chromaUpsert
\* storeOk: whether the store accepts the c.Upsert request.  The result is
\* the error flag and the contents of the collection after the call.
chromaUpsert(c, coll, id, doc, embeddingVec, metadata, storeOk) ==
  IF c = Nil THEN [err |-> TRUE, coll |-> coll]
  ELSE IF id = <<>> THEN [err |-> TRUE, coll |-> coll]
  ELSE IF embeddingVec = Nil THEN [err |-> TRUE, coll |-> coll]
  ELSE IF storeOk
       THEN [err |-> FALSE,
             coll |-> MapPut(coll, id, [doc |-> doc, vec |-> embeddingVec,
                                        meta |-> metadata])]
       ELSE [err |-> TRUE, coll |-> coll]

\* ------------------------------------------------ loadDocumentsFromDataDir
RootEntry == [path |-> <<>>, isDir |-> TRUE, text |-> <<>>]

FilePaths == <<<<"a">>, <<"b">>, <<"g">>, <<"r">>>>

\* contents of the files of the corpus
TextPool ==
  { <<>>,
    <<"x", " ", "y">>,
    <<"x", "\n", "\n", "y", " ", "z">>,
    <<"x", "y", "z", "x">> }

ChunkLengths == {3, 800}

FileEntry(i, text) == [path |-> FilePaths[i], isDir |-> FALSE, text |-> text]

Disks ==
  UNION {{<<RootEntry>> \o [i \in 1..n |-> FileEntry(i, t[i])] :
            t \in [1..n -> TextPool]} : n \in 0..MaxFiles}

RagNS == <<"r", "a", "g">>

\* EmbedInputs with the number of the process run hashed into the id
EmbedInputsPerRun(path, chunks) ==
  [i \in 1..Len(chunks) |->
     [ID |-> stableID(<<RagNS, path, FmtD(i - 1), FmtD(run)>>),
      Text |-> chunks[i]]]

\* embedInputs of one file: lines 164-168
EmbedInputs(path, chunks) ==
  [i \in 1..Len(chunks) |->
     [ID |-> stableID(<<RagNS, path, FmtD(i - 1)>>), Text |-> chunks[i]]]

\* vecs[id]: nil when the map has no entry for id
VecGet(vecs, id) == IF id \in DOMAIN vecs THEN vecs[id] ELSE Nil

\* UpsertLoop with the corpus append moved before the error check: a chunk
\* whose upsert failed is indexed all the same
RECURSIVE UpsertLoopNoSkip(_, _, _, _, _, _, _)
UpsertLoopNoSkip(i, path, chunks, embedInputs, vecs, upFail, st) ==
  IF i > Len(chunks) THEN st
  ELSE LET id   == embedInputs[i].ID
           meta == [source |-> path, type |-> "document", chunk |-> i - 1]
           r    == chromaUpsert(ragDocsCollection, st.ragDocs, id, chunks[i],
                                VecGet(vecs, id), meta, i \notin upFail)
       IN UpsertLoopNoSkip(i + 1, path, chunks, embedInputs, vecs, upFail,
            [ragDocs        |-> r.coll,
             corpus         |-> Append(st.corpus, [ID |-> id, Text |-> chunks[i]]),
             documentChunks |-> st.documentChunks + 1,
             upsertLog      |-> Append(st.upsertLog, [id |-> id, ok |-> ~r.err])])

\* UpsertLoop with "break" in place of "continue": the first failed upsert
\* ends the file's loop
RECURSIVE UpsertLoopBreak(_, _, _, _, _, _, _)
UpsertLoopBreak(i, path, chunks, embedInputs, vecs, upFail, st) ==
  IF i > Len(chunks) THEN st
  ELSE LET id   == embedInputs[i].ID
           meta == [source |-> path, type |-> "document", chunk |-> i - 1]
           r    == chromaUpsert(ragDocsCollection, st.ragDocs, id, chunks[i],
                                VecGet(vecs, id), meta, i \notin upFail)
           log  == Append(st.upsertLog, [id |-> id, ok |-> ~r.err])
       IN IF r.err
          THEN [st EXCEPT !.upsertLog = log]
          ELSE UpsertLoopBreak(i + 1, path, chunks, embedInputs, vecs, upFail,
                 [ragDocs        |-> r.coll,
                  corpus         |-> Append(st.corpus,
                                            [ID |-> id, Text |-> chunks[i]]),
                  documentChunks |-> st.documentChunks + 1,
                  upsertLog      |-> log])

\* the loop of lines 175-190 from chunk i (1-based) on; st carries ragDocs,
\* corpus, documentChunks and upsertLog; upFail is the set of chunk numbers
\* whose c.Upsert request the store rejects
RECURSIVE UpsertLoop(_, _, _, _, _, _, _)
UpsertLoop(i, path, chunks, embedInputs, vecs, upFail, st) ==
  IF i > Len(chunks) THEN st
  ELSE LET id   == embedInputs[i].ID
           meta == [source |-> path, type |-> "document", chunk |-> i - 1]
           r    == chromaUpsert(ragDocsCollection, st.ragDocs, id, chunks[i],
                                VecGet(vecs, id), meta, i \notin upFail)
           log  == Append(st.upsertLog, [id |-> id, ok |-> ~r.err])
       IN IF r.err
          THEN UpsertLoop(i + 1, path, chunks, embedInputs, vecs, upFail,
                 [st EXCEPT !.upsertLog = log])
          ELSE UpsertLoop(i + 1, path, chunks, embedInputs, vecs, upFail,
                 [ragDocs        |-> r.coll,
                  corpus         |-> Append(st.corpus,
                                            [ID |-> id, Text |-> chunks[i]]),
                  documentChunks |-> st.documentChunks + 1,
                  upsertLog      |-> log])

\* lines 110-138: the checks before the walk
Begin ==
  /\ pc = "start"
  /\ IF ~dirExists
     THEN \E mkdirOk \in BOOLEAN :   \* os.MkdirAll
            /\ dirExists' = mkdirOk
            /\ ret' = IF mkdirOk THEN "ok" ELSE "err"
            /\ pc' = "done"
     ELSE IF ragDocsCollection = Nil \/ hfEmbedderConcrete = Nil
     THEN /\ ret' = "err"
          /\ pc' = "done"
          /\ UNCHANGED dirExists
     ELSE /\ pc' = "walk"
          /\ UNCHANGED <<dirExists, ret>>
  /\ entryIdx' = 0
  /\ corpus' = <<>>
  /\ documentChunks' = 0
  /\ UNCHANGED <<disk, chunkLength, run, bm25Index, ragDocs,
                 ragDocsCollection, hfEmbedderConcrete, upsertLog, visitLog,
                 lastCleanRun>>
  /\ UNCHANGED <<embedVars, searchVars, fuseVars, queryVars, chunkVars, idVars, mainVars>>

\* what the callback did with an entry, as recorded in visitLog
Visited(e, outcome, ids) == [path |-> e.path, outcome |-> outcome, ids |-> ids]

\* the error a callback returns ends WalkDir and the function (lines 194-196)
WalkAborts(e, outcome, ids) ==
  /\ pc' = "done"
  /\ ret' = "err"
  /\ entryIdx' = entryIdx + 1
  /\ visitLog' = Append(visitLog, Visited(e, outcome, ids))
  /\ UNCHANGED <<corpus, documentChunks, ragDocs, upsertLog>>

\* the callback returns nil without indexing anything
WalkSkips(e, outcome) ==
  /\ entryIdx' = entryIdx + 1
  /\ visitLog' = Append(visitLog, Visited(e, outcome, <<>>))
  /\ UNCHANGED <<pc, ret, corpus, documentChunks, ragDocs, upsertLog>>

\* lines 140-193: the WalkDir callback on the next entry
Visit ==
  /\ pc = "walk"
  /\ entryIdx < Len(disk)
  /\ LET e      == disk[entryIdx + 1]
         chunkSize == IF chunkLength <= 0 THEN DefaultChunkSize ELSE chunkLength
         text   == TrimSpace(e.text)
         chunks == chunkText(text, chunkSize)
         embedInputs == EmbedInputs(e.path, chunks)
         ids    == [i \in 1..Len(chunks) |-> embedInputs[i].ID]
     IN \/ \* err != nil: WalkDir could not stat or list the entry
           WalkAborts(e, "walkErr", <<>>)
        \/ /\ e.isDir
           /\ WalkSkips(e, "dir")
        \/ \* os.ReadFile fails
           /\ ~e.isDir
           /\ WalkSkips(e, "readErr")
        \/ /\ ~e.isDir
           /\ text = <<>> \/ Len(chunks) = 0
           /\ WalkSkips(e, "empty")
        \/ /\ ~e.isDir
           /\ text # <<>> /\ Len(chunks) > 0
           /\ \E replies \in [1..NumBatches(Len(chunks), EmbedBatchSize) -> ReplyKinds],
                 upFail \in SUBSET (1..Len(chunks)) :
                LET res == Embed(embedInputs, EmbedBatchSize, replies)
                IN IF res.err
                   THEN /\ upFail = {}
                        /\ WalkAborts(e, "embedErr", ids)
                   ELSE LET st == UpsertLoop(1, e.path, chunks, embedInputs,
                                     Val(res.out), upFail,
                                     [ragDocs |-> ragDocs, corpus |-> corpus,
                                      documentChunks |-> documentChunks,
                                      upsertLog |-> upsertLog])
                        IN /\ ragDocs' = st.ragDocs
                           /\ corpus' = st.corpus
                           /\ documentChunks' = st.documentChunks
                           /\ upsertLog' = st.upsertLog
                           /\ visitLog' = Append(visitLog, Visited(e, "indexed", ids))
                           /\ entryIdx' = entryIdx + 1
                           /\ UNCHANGED <<pc, ret>>
  /\ UNCHANGED <<dirExists, disk, chunkLength, run, bm25Index,
                 ragDocsCollection, hfEmbedderConcrete, lastCleanRun>>
  /\ UNCHANGED <<embedVars, searchVars, fuseVars, queryVars, chunkVars, idVars, mainVars>>

\* Finish without waiting for the end of the walk: the index is published
\* over the corpus gathered so far
FinishEarly ==
  /\ pc = "walk"
  /\ bm25Index' = Some(NewBM25Index(corpus))
  /\ ret' = "ok"
  /\ pc' = "done"
  /\ UNCHANGED <<dirExists, disk, chunkLength, entryIdx, corpus,
                 documentChunks, run,
                 ragDocs, ragDocsCollection, hfEmbedderConcrete, upsertLog,
                 visitLog, lastCleanRun>>
  /\ UNCHANGED <<embedVars, searchVars, fuseVars, queryVars, chunkVars, idVars, mainVars>>

\* lines 194-205: the walk returned nil; the index is rebuilt
Finish ==
  /\ pc = "walk"
  /\ entryIdx = Len(disk)
  /\ bm25Index' = Some(NewBM25Index(corpus))
  /\ ret' = "ok"
  /\ pc' = "done"
  /\ UNCHANGED <<dirExists, disk, chunkLength, entryIdx, corpus,
                 documentChunks, run,
                 ragDocs, ragDocsCollection, hfEmbedderConcrete, upsertLog,
                 visitLog, lastCleanRun>>
  /\ UNCHANGED <<embedVars, searchVars, fuseVars, queryVars, chunkVars, idVars, mainVars>>

\* the run that ended visited every entry and met no failure
CleanRun ==
  /\ pc = "done" /\ ret = "ok"
  /\ Len(visitLog) = Len(disk)
  /\ \A i \in 1..Len(visitLog) :
        visitLog[i].outcome \in {"dir", "empty", "indexed"}
  /\ \A i \in 1..Len(upsertLog) : upsertLog[i].ok

\* The process ends and the program is started again: the globals are
\* fresh, the data directory and the external store keep their contents.
\* lastCleanRun remembers what the process left when its run was clean.
Restart ==
  /\ pc = "done"
  /\ run < MaxRuns
  /\ run' = run + 1
  /\ pc' = "start"
  /\ ret' = "none"
  /\ bm25Index' = Nil
  /\ entryIdx' = 0
  /\ corpus' = <<>>
  /\ documentChunks' = 0
  /\ upsertLog' = <<>>
  /\ visitLog' = <<>>
  /\ lastCleanRun' = IF CleanRun
                     THEN Some([ragDocs |-> ragDocs, bm25Index |-> bm25Index])
                     ELSE Nil
  /\ UNCHANGED <<dirExists, disk, chunkLength, ragDocs, ragDocsCollection,
                 hfEmbedderConcrete>>
  /\ UNCHANGED <<embedVars, searchVars, fuseVars, queryVars, chunkVars, idVars, mainVars>>

IdleEmbed  == eImpl = "none" /\ eChunks = <<>> /\ eBatch = EmbedBatchSize /\ eReplies = <<>> /\ eRes = Nil
IdleSearch == sQuery = <<>> /\ sK = 0 /\ sRes = Nil
IdleFuse   == fA = <<>> /\ fB = <<>> /\ fRes = Nil /\ fRes2 = Nil
IdleQuery  ==
  /\ conversationCollection = Some("conversation_memory")
  /\ convDocs = EmptyMap
  /\ qFn = "none" /\ qQuery = <<>> /\ qK = 0 /\ qEnv = Nil /\ qRes = Nil
IdleChunk  == cText = <<>> /\ cSize = DefaultChunkSize /\ cRes = Nil
IdleId     == idA = <<>> /\ idB = <<>> /\ idRes = Nil
\* main is not followed: the state is the one after its start-up
IdleMain   == mainPc = "none" /\ mainEnv = Nil /\ storeCall = Nil

IdleIngest ==
  /\ dirExists = FALSE /\ disk = <<RootEntry>>
  /\ chunkLength = DefaultChunkSize
  /\ pc = "done" /\ entryIdx = 0 /\ corpus = <<>> /\ documentChunks = 0
  /\ ret = "none" /\ run = 1 /\ ragDocs = EmptyMap
  /\ ragDocsCollection = Some("rag_docs")
  /\ hfEmbedderConcrete = Some("hfEmbedder")
  /\ upsertLog = <<>> /\ visitLog = <<>> /\ lastCleanRun = Nil

\* main has created the collections and the embedder (lines 303-320) and is
\* about to call loadDocumentsFromDataDir (line 333)
Init ==
  /\ dirExists \in BOOLEAN
  /\ disk \in IF dirExists THEN Disks ELSE {<<RootEntry>>}
  /\ chunkLength \in ChunkLengths
  /\ pc = "start" /\ entryIdx = 0 /\ corpus = <<>> /\ documentChunks = 0
  /\ ret = "none" /\ run = 1
  /\ bm25Index = Nil
  /\ ragDocs = EmptyMap
  /\ ragDocsCollection = Some("rag_docs")
  /\ hfEmbedderConcrete = Some("hfEmbedder")
  /\ upsertLog = <<>> /\ visitLog = <<>> /\ lastCleanRun = Nil
  /\ IdleEmbed /\ IdleSearch /\ IdleFuse /\ IdleQuery
  /\ IdleChunk /\ IdleId /\ IdleMain

Next == Begin \/ Visit \/ Finish \/ Restart

Spec == Init /\ [][Next]_vars

\* ======================================================================
\* Properties of ingestion (specification Spec)
\* ======================================================================

\* ids of the chunks whose upsert succeeded / failed in this run
UpsertedOk     == {upsertLog[i].id : i \in {j \in 1..Len(upsertLog) : upsertLog[j].ok}}
UpsertFailed   == {upsertLog[i].id : i \in {j \in 1..Len(upsertLog) : ~upsertLog[j].ok}}
UpsertAttempted == {upsertLog[i].id : i \in 1..Len(upsertLog)}

\* ids of the chunks of the files whose Embed call succeeded in this run
EmbeddedOk ==
  UNION {Range(visitLog[i].ids) :
           i \in {j \in 1..Len(visitLog) : visitLog[j].outcome = "indexed"}}

Outcomes == {visitLog[i].outcome : i \in 1..Len(visitLog)}

\* ids held by the published lexical index
IndexIds ==
  IF bm25Index = Nil THEN {}
  ELSE {Val(bm25Index).docs[i].ID : i \in 1..Len(Val(bm25Index).docs)}

CorpusIds == {corpus[i].ID : i \in 1..Len(corpus)}

\* C1: an embedding failure for one file leaves only that file unindexed:
\* the walk goes on over the later entries, and unless WalkDir itself
\* reports an error the run visits every entry, returns nil and rebuilds
\* the lexical index.
C1_EmbedFailureKeepsWalking ==
  "embedErr" \in Outcomes =>
     \/ pc = "walk"
     \/ /\ pc = "done"
        /\ "walkErr" \notin Outcomes =>
              /\ ret = "ok"
              /\ Len(visitLog) = Len(disk)
              /\ bm25Index # Nil

\* C2: every id held by the lexical index is the id of a chunk that was
\* embedded and whose upsert into rag_docs succeeded in this run.
C2_IndexOnlyHoldsPersistedChunks ==
  \A id \in IndexIds :
     /\ id \in EmbeddedOk
     /\ id \in UpsertedOk
     /\ id \in DOMAIN ragDocs

\* C2 witness: a finished run with a failed upsert and a non-empty index
C2_Witness ==
  /\ pc = "done"
  /\ IndexIds # {}
  /\ UpsertFailed # {}

\* C3: a failed upsert is skipped without aborting.  Every chunk of every
\* file that was embedded is still sent to the store, a chunk whose upsert
\* failed is not in the lexical corpus, and a run whose only failures are
\* failed upserts (and unreadable files) visits every entry, returns nil and
\* publishes an index of exactly the chunks whose upsert succeeded.
C3_UpsertFailureIsSkipped ==
  UpsertFailed # {} =>
     /\ EmbeddedOk \subseteq UpsertAttempted
     /\ CorpusIds = UpsertedOk
     /\ (pc = "done" /\ Outcomes \cap {"walkErr", "embedErr"} = {}) =>
           /\ ret = "ok"
           /\ Len(visitLog) = Len(disk)
           /\ IndexIds = UpsertedOk

\* C3 witness: a finished run in which a chunk's upsert failed, a later chunk
\* of the same file and a chunk of a later file were upserted
C3_Witness ==
  /\ pc = "done" /\ ret = "ok"
  /\ \E i, j, k \in 1..Len(upsertLog) :
        /\ i < j /\ j < k
        /\ ~upsertLog[i].ok /\ upsertLog[j].ok /\ upsertLog[k].ok
        /\ \E v \in 1..Len(visitLog) :
              /\ upsertLog[i].id \in Range(visitLog[v].ids)
              /\ upsertLog[j].id \in Range(visitLog[v].ids)
              /\ upsertLog[k].id \notin Range(visitLog[v].ids)

\* ======================================================================
\* hfEmbedder.Embed as a function of its input and the provider's replies
\* (specification SpecEmbed)
\* ======================================================================

\* n chunks with ids "1".."n"; with dup the last chunk repeats the first id
ChunkInput(n, dup) ==
  [i \in 1..n |->
     [ID   |-> IF dup /\ i = n /\ n >= 2 THEN FmtD(1) ELSE FmtD(i),
      Text |-> <<"x">> \o FmtD(i)]]

\* the <<chunks, batch size>> pairs tried: the small ones and 130 chunks
\* with the configured batch size
EmbedInputPairs ==
  {<<ChunkInput(n, dup), bsz>> :
     n \in 0..MaxChunks, dup \in BOOLEAN, bsz \in (1..MaxBatch) \cup {EmbedBatchSize}}
  \cup {<<ChunkInput(130, FALSE), EmbedBatchSize>>}

InitEmbed ==
  /\ IdleIngest /\ IdleSearch /\ IdleFuse /\ IdleQuery
  /\ IdleChunk /\ IdleId /\ IdleMain
  /\ bm25Index = Nil
  /\ \E p \in EmbedInputPairs : eChunks = p[1] /\ eBatch = p[2]
  /\ eImpl = "none"
  /\ eReplies = <<>>
  /\ eRes = Nil

\* one call of hfEmbedder.Embed; replies[i] is what the provider does with
\* the i-th request
EmbedCall ==
  /\ eRes = Nil
  /\ \E replies \in [1..NumBatches(Len(eChunks), eBatch) -> ReplyKinds] :
        /\ eReplies' = replies
        /\ eRes' = Some(Embed(eChunks, eBatch, replies))
  /\ eImpl' = "hfEmbedder"
  /\ UNCHANGED <<eChunks, eBatch>>
  /\ UNCHANGED <<ingestVars, bm25Index, searchVars, fuseVars, queryVars, chunkVars, idVars, mainVars>>

NextEmbed == EmbedCall

SpecEmbed == InitEmbed /\ [][NextEmbed]_vars

ChunkIds(chunks) == {chunks[i].ID : i \in 1..Len(chunks)}

DistinctIds(chunks) == Cardinality(ChunkIds(chunks)) = Len(chunks)

\* C4: Embed is all-or-nothing.  If the provider fails any batch (transport
\* error, non-200, undecodable body, wrong number of vectors) the call
\* returns an error and a nil map; a map is returned only without error.
C4_EmbedAllOrNothing ==
  eRes # Nil =>
     LET r == Val(eRes)
     IN /\ (\E i \in 1..Len(eReplies) : eReplies[i] # "ok") =>
              (r.err /\ r.out = Nil)
        /\ r.err => r.out = Nil
        /\ ~r.err => r.out # Nil

\* C4 witness: the first batch succeeded, a later one failed, and the call
\* returned an error with a nil map
C4_Witness ==
  /\ eRes # Nil
  /\ Len(eReplies) >= 2
  /\ eReplies[1] = "ok" /\ eReplies[2] = "short"
  /\ Val(eRes).err /\ Val(eRes).out = Nil
  /\ Len(Val(eRes).requests) = 2

\* C5: a successful Embed of n chunks with distinct ids and batch size B
\* sends ceil(n/B) requests that carry the texts in input order, each of at
\* most B texts and all but the last of exactly B, and returns a map of
\* exactly the n input ids, each with the vector of its own text; zero
\* chunks give zero requests and an empty map.
C5_EmbedBatching ==
  (eRes # Nil /\ ~Val(eRes).err /\ DistinctIds(eChunks)) =>
     LET r    == Val(eRes)
         n    == Len(eChunks)
         reqs == r.requests
         m    == Len(reqs)
     IN /\ m * eBatch >= n
        /\ (m - 1) * eBatch < n \/ (n = 0 /\ m = 0)
        /\ Flatten(reqs) = [i \in 1..n |-> eChunks[i].Text]
        /\ \A i \in 1..m : /\ Len(reqs[i]) <= eBatch
                           /\ i < m => Len(reqs[i]) = eBatch
        /\ DOMAIN Val(r.out) = ChunkIds(eChunks)
        /\ Cardinality(DOMAIN Val(r.out)) = n
        /\ \A i \in 1..n : Val(r.out)[eChunks[i].ID] = Vec(eChunks[i].Text)

\* C5 witness: 130 chunks, batch size 64: requests of 64, 64 and 2 texts and
\* a map of 130 entries
C5_Witness ==
  /\ eRes # Nil /\ ~Val(eRes).err
  /\ Len(eChunks) = 130 /\ eBatch = 64 /\ DistinctIds(eChunks)
  /\ [i \in 1..Len(Val(eRes).requests) |-> Len(Val(eRes).requests[i])]
       = <<64, 64, 2>>
  /\ Cardinality(DOMAIN Val(Val(eRes).out)) = 130

\* ======================================================================
\* NewBM25Index and BM25Index.Search as functions of the corpus, the query
\* and k (specification SpecBM25)
\* ======================================================================

RECURSIVE Words(_, _)
Words(tok, n) == IF n = 0 THEN <<>> ELSE <<tok>> \o Words(tok, n - 1)

RECURSIVE JoinSpace(_)
JoinSpace(toks) ==
  IF toks = <<>> THEN <<>>
  ELSE IF Len(toks) = 1 THEN toks[1]
  ELSE toks[1] \o <<" ">> \o JoinSpace(Tail(toks))

\* the text "x ... x y ... y" with nx times x and ny times y
XY(nx, ny) == JoinSpace(Words(<<"x">>, nx) \o Words(<<"y">>, ny))

\* texts of the documents: all texts XY of at most MaxDocLen words, the pair
\* of five-word documents with x five times and once, and a text that needs
\* lowercasing and punctuation removal
DocTexts ==
  {XY(p[1], p[2]) :
     p \in {q \in (0..MaxDocLen) \X (0..MaxDocLen) : q[1] + q[2] <= MaxDocLen}}
  \cup {XY(5, 0), XY(1, 4), <<"X", "-", "x">>}

DocId(i) == stableID(<<RagNS, <<"a">>, FmtD(i - 1)>>)

Corpora ==
  UNION {{[i \in 1..n |-> [ID |-> DocId(i), Text |-> t[i]]] :
            t \in [1..n -> DocTexts]} : n \in 0..MaxDocs}

\* a corpus one document longer than insertionSortLessFunc handles: every
\* document holds x once, the first and the last have the same text, the
\* others differ in length
TieDocs == InsertionSortLimit + 1
TieCorpus ==
  [i \in 1..TieDocs |->
     [ID |-> DocId(i), Text |-> XY(1, IF i = TieDocs THEN 0 ELSE i - 1)]]

Queries ==
  { <<>>, <<"-">>, <<"x">>, <<"y">>, <<"z">>, <<"X", "-", "y">> }

InitBM25 ==
  /\ IdleIngest /\ IdleEmbed /\ IdleFuse /\ IdleQuery
  /\ IdleChunk /\ IdleId /\ IdleMain
  /\ bm25Index \in {Nil} \cup {Some(NewBM25Index(c)) : c \in Corpora \cup {TieCorpus}}
  /\ IdleSearch

\* one call bm25Index.Search(query, k)
SearchCall ==
  /\ sRes = Nil
  /\ \E q \in Queries, k \in (-1)..(MaxDocs + 1) :
        \E r \in Search(bm25Index, q, k) :
           /\ sQuery' = q
           /\ sK' = k
           /\ sRes' = Some(r)
  /\ UNCHANGED <<ingestVars, bm25Index, embedVars, fuseVars, queryVars, chunkVars, idVars, mainVars>>

NextBM25 == SearchCall

SpecBM25 == InitBM25 /\ [][NextBM25]_vars

\* ---- the vocabulary of the BM25 claims, for a state with bm25Index # Nil
IdxDocs == Val(bm25Index).docs
NDocs == IF bm25Index = Nil THEN 0 ELSE Len(IdxDocs)
QTokens == tokenize(sQuery)
DocTokens(i) == tokenize(IdxDocs[i].Text)

\* document i contains at least one token of the query
Matches(i) == Range(DocTokens(i)) \cap Range(QTokens) # {}

\* occurrences of token t in document i
Occurrences(i, t) ==
  Cardinality({p \in 1..Len(DocTokens(i)) : DocTokens(i)[p] = t})

ScoreOf(i) == DocScore(Val(bm25Index), i, QTokens)

DocIndex(id) == CHOOSE i \in 1..NDocs : IdxDocs[i].ID = id

ResIds == Val(sRes).ids

\* C6: Search never returns a document that contains none of the query's
\* tokens, every returned document has a strictly positive score, and with
\* k at least the corpus size every document that contains a query token is
\* returned.
C6_OnlyMatchingDocuments ==
  (sRes # Nil /\ ~Val(sRes).panic) =>
     /\ \A id \in Range(ResIds) :
           \E i \in 1..NDocs :
              /\ IdxDocs[i].ID = id
              /\ Matches(i)
              /\ ScoreOf(i) > 0
     /\ sK >= NDocs =>
           \A i \in 1..NDocs : Matches(i) => IdxDocs[i].ID \in Range(ResIds)

\* C6 witness: a three-document corpus where one document misses the query
\* term and is left out while k covers the whole corpus
C6_Witness ==
  /\ sRes # Nil /\ NDocs = 3 /\ sK >= 3
  /\ ~Matches(1) /\ DocTokens(1) # <<>> /\ Matches(2) /\ Matches(3)
  /\ Range(ResIds) = {IdxDocs[2].ID, IdxDocs[3].ID}

\* C7: in a corpus of two documents of equal token length, for a query of
\* one term and k >= 1, the document with more occurrences of the term is
\* ranked first, and the other one, if returned at all, comes after it.
C7_HigherFrequencyRanksFirst ==
  (sRes # Nil /\ NDocs = 2 /\ Len(QTokens) = 1 /\ sK >= 1
     /\ Len(DocTokens(1)) = Len(DocTokens(2))) =>
     \A i, j \in 1..2 :
        Occurrences(i, QTokens[1]) > Occurrences(j, QTokens[1]) =>
           /\ ~Val(sRes).panic
           /\ Len(ResIds) >= 1
           /\ ResIds[1] = IdxDocs[i].ID
           /\ \A p \in 1..Len(ResIds) : ResIds[p] = IdxDocs[j].ID => p > 1

\* C7 witness: B (x once, five words) is stored before A (x five times);
\* the query x with k = 2 returns A, B
C7_Witness ==
  /\ sRes # Nil /\ NDocs = 2 /\ sK = 2 /\ sQuery = <<"x">>
  /\ IdxDocs[1].Text = XY(1, 4) /\ IdxDocs[2].Text = XY(5, 0)
  /\ ResIds = <<IdxDocs[2].ID, IdxDocs[1].ID>>

\* C8: Search returns the empty result, and does not panic, when the index
\* is nil, when it holds no documents, or when the query has no tokens.
C8_EmptyResult ==
  (sRes # Nil /\ (bm25Index = Nil \/ NDocs = 0 \/ QTokens = <<>>)) =>
     /\ ~Val(sRes).panic
     /\ ResIds = <<>>

\* C8 witness: a non-empty query without any token on a non-empty index
C8_Witness ==
  /\ sRes # Nil /\ NDocs > 0 /\ sQuery # <<>> /\ QTokens = <<>>
  /\ Val(sRes) = Returned(<<>>)

\* the documents Search scores above zero
Positive ==
  IF bm25Index = Nil \/ QTokens = <<>> THEN {}
  ELSE {i \in 1..NDocs : ScoreOf(i) > 0}

\* C9: for k >= 0 Search returns min(k, number of positively scored
\* documents) distinct ids in non-increasing order of score, and no document
\* left out scores strictly higher than a returned one.
C9_TopKByScore ==
  (sRes # Nil /\ sK >= 0) =>
     /\ ~Val(sRes).panic
     /\ Len(ResIds) = Min(sK, Cardinality(Positive))
     /\ \A p \in 1..Len(ResIds) : \E i \in Positive : IdxDocs[i].ID = ResIds[p]
     /\ \A p, q \in 1..Len(ResIds) :
           p < q => /\ ResIds[p] # ResIds[q]
                    /\ ScoreOf(DocIndex(ResIds[p])) >= ScoreOf(DocIndex(ResIds[q]))
     /\ \A i \in Positive :
           IdxDocs[i].ID \notin Range(ResIds) =>
              \A p \in 1..Len(ResIds) :
                 ScoreOf(i) <= ScoreOf(DocIndex(ResIds[p]))

\* C9 witness: three documents with scores in increasing corpus order and
\* k = 2: the last two are returned, best first, and the first is left out
C9_Witness ==
  /\ sRes # Nil /\ NDocs = 3 /\ sK = 2 /\ QTokens # <<>>
  /\ 0 < ScoreOf(1) /\ ScoreOf(1) < ScoreOf(2) /\ ScoreOf(2) < ScoreOf(3)
  /\ ResIds = <<IdxDocs[3].ID, IdxDocs[2].ID>>

\* ======================================================================
\* rrfFuseIDs as a function of the two ranked lists (specification SpecFuse)
\* ======================================================================

FuseIds == {<<"a">>, <<"b">>, <<"c">>, <<"d">>}

\* ranked lists as Search and the store return them: no id twice
RankedLists ==
  UNION {{l \in [1..n -> FuseIds] : \A i, j \in 1..n : i # j => l[i] # l[j]} :
           n \in 0..MaxListLen}

InitFuse ==
  /\ IdleIngest /\ IdleEmbed /\ IdleSearch /\ IdleQuery
  /\ IdleChunk /\ IdleId /\ IdleMain
  /\ bm25Index = Nil
  /\ fA \in RankedLists
  /\ fB \in RankedLists
  /\ fRes = Nil
  /\ fRes2 = Nil

\* one call rrfFuseIDs(fA, fB, 60)
FuseCall ==
  /\ fRes = Nil
  /\ \E r \in rrfFuseIDs(fA, fB, RRFK) : fRes' = Some(r)
  /\ UNCHANGED <<fA, fB, fRes2>>
  /\ UNCHANGED <<ingestVars, bm25Index, embedVars, searchVars, queryVars, chunkVars, idVars, mainVars>>

\* a second execution of rrfFuseIDs(fA, fB, 60) on the same two lists
FuseAgain ==
  /\ fRes # Nil
  /\ fRes2 = Nil
  /\ \E r \in rrfFuseIDs(fA, fB, RRFK) : fRes2' = Some(r)
  /\ UNCHANGED <<fA, fB, fRes>>
  /\ UNCHANGED <<ingestVars, bm25Index, embedVars, searchVars, queryVars, chunkVars, idVars, mainVars>>

NextFuse == FuseCall \/ FuseAgain

SpecFuse == InitFuse /\ [][NextFuse]_vars

\* the 0-based rank of id in list
RankIn(list, id) == (CHOOSE i \in 1..Len(list) : list[i] = id) - 1

\* the reciprocal-rank contribution of one list to id: 1/(60 + r + 1), or
\* zero when the list does not hold id
Contribution(list, id) ==
  IF id \in Range(list) THEN <<1, 60 + RankIn(list, id) + 1>> ELSE RatZero

RRFScore(id) == RatAdd(Contribution(fA, id), Contribution(fB, id))

Position(r, id) == CHOOSE i \in 1..Len(r) : r[i] = id

\* C10: rrfFuseIDs(a, b, 60) returns every id of the union of a and b
\* exactly once, in non-increasing order of the sum of 1/(60 + r + 1) over
\* the lists that hold the id at 0-based rank r; for a = [a,b,c] and
\* b = [b,c,d] id b precedes id d; two empty lists give the empty list.
C10_FusedRanking ==
  fRes # Nil =>
     LET r == Val(fRes)
     IN /\ Range(r) = Range(fA) \cup Range(fB)
        /\ Len(r) = Cardinality(Range(fA) \cup Range(fB))
        /\ \A i, j \in 1..Len(r) :
              i < j => ~RatGreater(RRFScore(r[j]), RRFScore(r[i]))
        /\ (fA = << <<"a">>, <<"b">>, <<"c">> >>
              /\ fB = << <<"b">>, <<"c">>, <<"d">> >>) =>
              Position(r, <<"b">>) < Position(r, <<"d">>)
        /\ (fA = <<>> /\ fB = <<>>) => r = <<>>

\* C10 witness: lexical [a,b,c] and vector [b,c,d] fused to [b,c,a,d]
C10_Witness ==
  /\ fA = << <<"a">>, <<"b">>, <<"c">> >>
  /\ fB = << <<"b">>, <<"c">>, <<"d">> >>
  /\ fRes = Some(<< <<"b">>, <<"c">>, <<"a">>, <<"d">> >>)

\* C11: fusion is deterministic: two executions of rrfFuseIDs on the same
\* lexical and vector lists return the ids in the same order, also among
\* ids of equal fused score (lexical [a], vector [b]).
C11_FusionDeterministic ==
  (fRes # Nil /\ fRes2 # Nil) => fRes = fRes2

\* ======================================================================
\* Retrieval at query time: vectorRetrieve, hybridRetrieve,
\* queryInternalKnowledge
\* ======================================================================

\* the literal strings of queryInternalKnowledge, vectorRetrieve and
\* storeConversationHistory, character by character
NotInitializedMsg ==
  <<"I", "n", "t", "e", "r", "n", "a", "l", " ", "k", "n", "o", "w", "l",
    "e", "d", "g", "e", " ", "b", "a", "s", "e", " ", "n", "o", "t", " ",
    "i", "n", "i", "t", "i", "a", "l", "i", "z", "e", "d", ".">>

NoInfoMsg ==
  <<"N", "o", " ", "r", "e", "l", "e", "v", "a", "n", "t", " ", "i", "n",
    "f", "o", "r", "m", "a", "t", "i", "o", "n", " ", "f", "o", "u", "n",
    "d", " ", "i", "n", " ", "i", "n", "t", "e", "r", "n", "a", "l", " ",
    "k", "n", "o", "w", "l", "e", "d", "g", "e", " ", "b", "a", "s", "e",
    ".">>

DocsHeader ==
  <<"=", "=", "=", " ", "R", "e", "l", "e", "v", "a", "n", "t", " ", "D",
    "o", "c", "u", "m", "e", "n", "t", "s", " ", "(", "h", "y", "b", "r",
    "i", "d", ")", " ", "=", "=", "=">>

MemHeader ==
  <<"=", "=", "=", " ", "R", "e", "l", "e", "v", "a", "n", "t", " ", "P",
    "a", "s", "t", " ", "C", "o", "n", "v", "e", "r", "s", "a", "t", "i",
    "o", "n", "s", " ", "(", "v", "e", "c", "t", "o", "r", ")", " ", "=",
    "=", "=">>

\* strings.Join(parts, "\n\n")
RECURSIVE JoinBlank(_)
JoinBlank(parts) ==
  IF parts = <<>> THEN <<>>
  ELSE IF Len(parts) = 1 THEN parts[1]
  ELSE parts[1] \o <<"\n", "\n">> \o JoinBlank(Tail(parts))

\* the record Retrieved{ID, Text, Source} built from position i of a reply:
\* lines 145-153 of vectorRetrieve and 81-91 of chromaGetByIDs
RetrievedAt(ids, docs, metas, i) ==
  [ID     |-> ids[i],
   Text   |-> IF i <= Len(docs) THEN docs[i] ELSE <<>>,
   Source |-> IF i <= Len(metas) /\ "source" \in DOMAIN metas[i]
              THEN metas[i].source ELSE <<>>]

\* What a reply of the store carries besides the ids
ReplyShapes == {"full", "noDocs", "noMetas"}

\* the shapes of an answer to c.Query: those, and an answer without any
\* result list (len(res.IDs) == 0)
QueryShapes == ReplyShapes \cup {"noIDs"}

\* c.Query(ctx, {q}, k): the k nearest records of the collection.  ranking
\* is the order in which the store ranks the ids of the collection against q.
StoreQuery(coll, k, ranking, shape) ==
  LET ids == SubSeq(ranking, 1, Min(k, Len(ranking)))
  IN [IDs       |-> IF shape = "noIDs" THEN <<>> ELSE <<ids>>,
      Documents |-> IF shape = "noDocs" THEN <<>>
                    ELSE <<[i \in 1..Len(ids) |-> coll[ids[i]].doc]>>,
      Metadatas |-> IF shape = "noMetas" THEN <<>>
                    ELSE <<[i \in 1..Len(ids) |-> coll[ids[i]].meta]>>]

\* c.Get(ctx, ids): the records of the collection among ids, in the order
\* of ids
StoreGet(coll, ids, shape) ==
  LET found == SelectSeq(ids, LAMBDA id : id \in DOMAIN coll)
  IN [IDs       |-> found,
      Documents |-> IF shape = "noDocs" THEN <<>>
                    ELSE [i \in 1..Len(found) |-> coll[found[i]].doc],
      Metadatas |-> IF shape = "noMetas" THEN <<>>
                    ELSE [i \in 1..Len(found) |-> coll[found[i]].meta]]

\* chromaQuery; fail: c.Query returns an error
chromaQuery(c, coll, queryEmbedding, k0, fail, ranking, shape) ==
  IF c = Nil
  THEN [err |-> Some("collection is nil"), ids |-> <<>>, docs |-> <<>>,
        metas |-> <<>>]
  ELSE LET k   == IF k0 <= 0 THEN 3 ELSE k0
           res == StoreQuery(coll, k, ranking, shape)
       IN IF fail
          THEN [err |-> Some("query"), ids |-> <<>>, docs |-> <<>>,
                metas |-> <<>>]
          ELSE IF Len(res.IDs) = 0
          THEN [err |-> Nil, ids |-> <<>>, docs |-> <<>>, metas |-> <<>>]
          ELSE [err   |-> Nil,
                ids   |-> res.IDs[1],
                docs  |-> IF Len(res.Documents) > 0 THEN res.Documents[1]
                          ELSE <<>>,
                metas |-> IF Len(res.Metadatas) > 0 THEN res.Metadatas[1]
                          ELSE <<>>]

\* chromaGetByIDs answering a failed c.Get with an empty result
chromaGetByIDsSwallow(c, coll, ids, fail, shape) ==
  IF c = Nil THEN [err |-> Some("collection is nil"), out |-> Nil]
  ELSE IF Len(ids) = 0 \/ fail THEN [err |-> Nil, out |-> Some(<<>>)]
  ELSE LET getRes == StoreGet(coll, ids, shape)
       IN [err |-> Nil,
           out |-> Some([i \in 1..Len(getRes.IDs) |->
                           RetrievedAt(getRes.IDs, getRes.Documents,
                                       getRes.Metadatas, i)])]

\* chromaGetByIDs; fail: c.Get returns an error
chromaGetByIDs(c, coll, ids, fail, shape) ==
  IF c = Nil THEN [err |-> Some("collection is nil"), out |-> Nil]
  ELSE IF Len(ids) = 0 THEN [err |-> Nil, out |-> Some(<<>>)]
  ELSE LET getRes == StoreGet(coll, ids, shape)
       IN IF fail THEN [err |-> Some("get"), out |-> Nil]
          ELSE [err |-> Nil,
                out |-> Some([i \in 1..Len(getRes.IDs) |->
                                RetrievedAt(getRes.IDs, getRes.Documents,
                                            getRes.Metadatas, i)])]

\* What the embedding provider and the store do during one vectorRetrieve:
\*   emb:     the provider's reply to the request that embeds the query;
\*   qryFail: c.Query returns an error;
\*   ranking, shape: the store's answer to c.Query.
\* vectorRetrieve reads the global embedder (written hfEmbedder at lines
\* 127 and 132; the package has one embedder variable, hfEmbedderConcrete).
vectorRetrieve(c, coll, query, k, env) ==
  IF c = Nil THEN [err |-> Some("collection is nil"), out |-> Nil]
  ELSE IF hfEmbedderConcrete = Nil
  THEN [err |-> Some("HF embedder not initialized"), out |-> Nil]
  ELSE LET qID  == stableID(<<<<"q">>, query>>)
           vecs == Embed(<<[ID |-> qID, Text |-> query]>>, EmbedBatchSize,
                         <<env.emb>>)
       IN IF vecs.err THEN [err |-> Some("embed"), out |-> Nil]
          ELSE LET qVec == VecGet(Val(vecs.out), qID)
                   q    == chromaQuery(c, coll, qVec, k, env.qryFail,
                                       env.ranking, env.shape)
               IN IF q.err # Nil THEN [err |-> q.err, out |-> Nil]
                  ELSE [err |-> Nil,
                        out |-> Some([i \in 1..Len(q.ids) |->
                                  RetrievedAt(q.ids, q.docs, q.metas, i)])]

\* idsFromRetrieved with the loop started at the second record
idsFromRetrievedSkipFirst(rs) == [i \in 1..(Len(rs) - 1) |-> rs[i + 1].ID]

idsFromRetrieved(rs) == [i \in 1..Len(rs) |-> rs[i].ID]

\* lines 185-193: m[r.ID] = r for the lexical records, then for the vector
\* records whose id m does not hold yet
RECURSIVE PutAll(_, _, _)
PutAll(m, rs, overwrite) ==
  IF rs = <<>> THEN m
  ELSE PutAll(IF overwrite \/ Head(rs).ID \notin DOMAIN m
              THEN MapPut(m, Head(rs).ID, Head(rs)) ELSE m,
              Tail(rs), overwrite)

\* PutAll with the vector records written first: the vector record wins
ResolveVectorFirst(lexTop, vecTop) ==
  PutAll(PutAll(EmptyMap, vecTop, TRUE), lexTop, FALSE)

Resolve(lexTop, vecTop) ==
  PutAll(PutAll(EmptyMap, lexTop, TRUE), vecTop, FALSE)

\* a result of hybridRetrieve: (out, err), or a panic
HybridPanicked == [panic |-> TRUE, err |-> Nil, out |-> Nil]
HybridErr(e) == [panic |-> FALSE, err |-> e, out |-> Nil]

\* lines 178-201 for one fused order
HybridOut(fusedIDs, k0, lexTop, vecTop) ==
  LET k        == IF k0 > Len(fusedIDs) THEN Len(fusedIDs) ELSE k0
      finalIDs == SubSeq(fusedIDs, 1, k)
      m        == Resolve(lexTop, vecTop)
      kept     == SelectSeq(finalIDs, LAMBDA id : id \in DOMAIN m)
  IN IF k < 0 THEN HybridPanicked
     ELSE [panic |-> FALSE, err |-> Nil,
           out |-> Some([i \in 1..Len(kept) |-> m[kept[i]]])]

\* hybridRetrieve: the set of results the call can produce.  env is the
\* environment of the vector leg, with getFail and getShape for c.Get.
hybridRetrieve(c, coll, query, k, env) ==
  LET v == vectorRetrieve(c, coll, query, k, env)
  IN IF v.err # Nil THEN {HybridErr(v.err)}
     ELSE LET vecTop == Val(v.out)
              lex    == IF bm25Index # Nil THEN Search(bm25Index, query, k)
                        ELSE {Returned(<<>>)}
          IN UNION {
               IF s.panic THEN {HybridPanicked}
               ELSE LET lexIDs == s.ids
                        g == chromaGetByIDs(c, coll, lexIDs, env.getFail,
                                            env.getShape)
                    IN IF g.err # Nil THEN {HybridErr(g.err)}
                       ELSE {HybridOut(fusedIDs, k, Val(g.out), vecTop) :
                               fusedIDs \in rrfFuseIDs(lexIDs,
                                              idsFromRetrieved(vecTop), RRFK)}
               : s \in lex}

\* lines 250-264: the text block
DocBlocks(docResults) ==
  [i \in 1..Len(docResults) |->
     <<"D", "o", "c", " ">> \o FmtD(i)
       \o <<" ", "(", "s", "o", "u", "r", "c", "e", ":", " ">>
       \o docResults[i].Source \o <<")", ":", "\n">> \o docResults[i].Text]

MemBlocks(memResults) ==
  [i \in 1..Len(memResults) |->
     <<"M", "e", "m", "o", "r", "y", " ">> \o FmtD(i) \o <<":", "\n">>
       \o memResults[i].Text]

\* FormatResults with the conversation section written first
FormatResultsMemFirst(docResults, memResults) ==
  JoinBlank((IF Len(memResults) > 0
             THEN <<MemHeader>> \o MemBlocks(memResults) ELSE <<>>)
            \o (IF Len(docResults) > 0
                THEN <<DocsHeader>> \o DocBlocks(docResults) ELSE <<>>))

FormatResults(docResults, memResults) ==
  JoinBlank((IF Len(docResults) > 0
             THEN <<DocsHeader>> \o DocBlocks(docResults) ELSE <<>>)
            \o (IF Len(memResults) > 0
                THEN <<MemHeader>> \o MemBlocks(memResults) ELSE <<>>))

\* queryInternalKnowledge: the set of (text, err) the call can return
queryInternalKnowledge(query, envDoc, envMem) ==
  IF hfEmbedderConcrete = Nil \/ ragDocsCollection = Nil
       \/ conversationCollection = Nil
  THEN {[text |-> NotInitializedMsg, err |-> Nil]}
  ELSE {IF h.err # Nil THEN [text |-> <<>>, err |-> h.err]
        ELSE LET docResults == Val(h.out)
                 mem == vectorRetrieve(conversationCollection, convDocs,
                                       query, 3, envMem)
             IN IF mem.err # Nil THEN [text |-> <<>>, err |-> mem.err]
                ELSE IF Len(docResults) = 0 /\ Len(Val(mem.out)) = 0
                THEN [text |-> NoInfoMsg, err |-> Nil]
                ELSE [text |-> FormatResults(docResults, Val(mem.out)),
                      err |-> Nil]
        : h \in hybridRetrieve(ragDocsCollection, ragDocs, query, 4, envDoc)}

\* ----------------------------------------------- storeConversationHistory
\* the record storeConversationHistory upserts for one exchange at time ts
ConvId(ts, userMsg, assistantMsg) ==
  stableID(<<<<"c", "o", "n", "v">>, ts, userMsg, assistantMsg>>)

ConvRecord(ts, userMsg, assistantMsg) ==
  LET conversation == <<"U", "s", "e", "r", ":", " ">> \o userMsg
                        \o <<"\n", "A", "s", "s", "i", "s", "t", "a", "n",
                             "t", ":", " ">> \o assistantMsg
  IN [doc  |-> conversation,
      vec  |-> Vec(conversation),
      meta |-> [type |-> "conversation", timestamp |-> ts]]

\* conversation_memory as earlier processes left it: empty, or holding two
\* exchanges
ConvStores ==
  { EmptyMap,
    MapPut(MapPut(EmptyMap, ConvId(<<"1">>, <<"x">>, <<"y">>),
                  ConvRecord(<<"1">>, <<"x">>, <<"y">>)),
           ConvId(<<"2">>, <<"z">>, <<"g">>),
           ConvRecord(<<"2">>, <<"z">>, <<"g">>)) }

\* ======================================================================
\* Ingestion followed by one retrieval call (specification SpecQuery)
\* ======================================================================
MaxK == 2   \* largest k passed to vectorRetrieve and hybridRetrieve

\* the data directory: one file, or the two files "x y" and "x\n\ny z"
QueryDisks ==
  {d \in Disks :
     \/ Len(d) = 2
     \/ /\ Len(d) = 3
        /\ d[2].text = <<"x", " ", "y">>
        /\ d[3].text = <<"x", "\n", "\n", "y", " ", "z">>}

QueryTexts == {<<"z">>, <<"x", " ", "z">>, <<"g">>}

\* the order of the ids of a collection the store lists first
FirstRanking(coll) == CHOOSE r \in Perms(DOMAIN coll) : TRUE

EnvOf(fail, ranking, shape, getShape) ==
  [emb      |-> IF fail = "embed" THEN "non200" ELSE "ok",
   qryFail  |-> fail = "query",
   getFail  |-> fail = "get",
   ranking  |-> ranking,
   shape    |-> shape,
   getShape |-> getShape]

\* the environments of a call on coll that fail first at one of failPoints
\* ("embed", "query", "get") or not at all; what happens after the first
\* failure is left out
Envs(coll, shapes, failPoints) ==
  {[EnvOf(f, FirstRanking(coll), "full", "full") EXCEPT !.emb = kind] :
     f \in failPoints \cap {"embed"}, kind \in ReplyKinds \ {"ok"}}
  \cup {EnvOf(f, FirstRanking(coll), "full", "full") :
          f \in failPoints \cap {"query"}}
  \cup {EnvOf("get", r, s, "full") :
          r \in Perms(DOMAIN coll), s \in shapes, f \in failPoints \cap {"get"}}
  \cup {EnvOf("none", r, s, g) :
          r \in Perms(DOMAIN coll), s \in shapes, g \in shapes}

InitQuery ==
  /\ dirExists = TRUE
  /\ disk \in QueryDisks
  /\ chunkLength \in ChunkLengths
  /\ pc = "start" /\ entryIdx = 0 /\ corpus = <<>> /\ documentChunks = 0
  /\ ret = "none" /\ run = 1
  /\ bm25Index = Nil
  /\ ragDocs = EmptyMap
  /\ ragDocsCollection = Some("rag_docs")
  /\ hfEmbedderConcrete = Some("hfEmbedder")
  /\ upsertLog = <<>> /\ visitLog = <<>> /\ lastCleanRun = Nil
  /\ IdleEmbed /\ IdleSearch /\ IdleFuse /\ IdleChunk /\ IdleId
  /\ IdleMain
  /\ conversationCollection = Some("conversation_memory")
  /\ convDocs \in ConvStores
  /\ qFn = "none" /\ qQuery = <<>> /\ qK = 0 /\ qEnv = Nil /\ qRes = Nil

\* one call vectorRetrieve(ctx, conversationCollection, query, k)
VectorRetrieveCall ==
  /\ pc = "done" /\ qFn = "none"   \* after line 333; no call recorded yet
  /\ \E query \in QueryTexts, k \in 1..MaxK,
        env \in Envs(convDocs, ReplyShapes, {"none", "embed", "query"}) :
       /\ env.getShape = "full"
       /\ qFn' = "vector"
       /\ qQuery' = query
       /\ qK' = k
       /\ qEnv' = Some(env)
       /\ qRes' = Some(vectorRetrieve(conversationCollection, convDocs,
                                      query, k, env))
  /\ UNCHANGED <<conversationCollection, convDocs>>
  /\ UNCHANGED <<ingestVars, bm25Index, embedVars, searchVars, fuseVars,
                 chunkVars, idVars, mainVars>>

\* one call hybridRetrieve(ctx, ragDocsCollection, query, k)
HybridRetrieveCall ==
  /\ pc = "done" /\ qFn = "none"   \* after line 333; no call recorded yet
  /\ \E query \in QueryTexts, k \in 1..MaxK,
        env \in Envs(ragDocs, QueryShapes, {"none", "embed", "query", "get"}) :
       /\ env.getShape \in ReplyShapes
       /\ qFn' = "hybrid"
       /\ qQuery' = query
       /\ qK' = k
       /\ qEnv' = Some(env)
       /\ \E r \in hybridRetrieve(ragDocsCollection, ragDocs, query, k, env) :
            qRes' = Some(r)
  /\ UNCHANGED <<conversationCollection, convDocs>>
  /\ UNCHANGED <<ingestVars, bm25Index, embedVars, searchVars, fuseVars,
                 chunkVars, idVars, mainVars>>

\* one call queryInternalKnowledge(ctx, query)
QueryInternalKnowledgeCall ==
  /\ pc = "done" /\ qFn = "none"   \* after line 333; no call recorded yet
  /\ \E query \in QueryTexts,
        envDoc \in Envs(ragDocs, {"full"}, {"none", "embed", "query", "get"}),
        envMem \in Envs(convDocs, {"full"}, {"none", "embed", "query"}) :
       /\ qFn' = "qik"
       /\ qQuery' = query
       /\ qK' = 0
       /\ qEnv' = Some([doc |-> envDoc, mem |-> envMem])
       /\ \E r \in queryInternalKnowledge(query, envDoc, envMem) :
            qRes' = Some(r)
  /\ UNCHANGED <<conversationCollection, convDocs>>
  /\ UNCHANGED <<ingestVars, bm25Index, embedVars, searchVars, fuseVars,
                 chunkVars, idVars, mainVars>>

NextQuery ==
  \/ Begin \/ Visit \/ Finish
  \/ VectorRetrieveCall \/ HybridRetrieveCall \/ QueryInternalKnowledgeCall

SpecQuery == InitQuery /\ [][NextQuery]_vars

\* ---- what the legs of the recorded hybridRetrieve call produced
HybridSucceeded ==
  qFn = "hybrid" /\ ~Val(qRes).panic /\ Val(qRes).err = Nil

\* vecTop: the records of the vector leg
VecTop == Val(vectorRetrieve(ragDocsCollection, ragDocs, qQuery, qK,
                             Val(qEnv)).out)

\* lexIDs: the ids of the lexical leg
LexIDs ==
  IF bm25Index = Nil THEN <<>>
  ELSE (CHOOSE s \in Search(bm25Index, qQuery, qK) : TRUE).ids

\* lexTop: the records fetched by id for the lexical leg
LexTop == Val(chromaGetByIDs(ragDocsCollection, ragDocs, LexIDs, FALSE,
                             Val(qEnv).getShape).out)

IdsOf(rs) == {rs[i].ID : i \in 1..Len(rs)}

RecordOf(rs, id) == rs[CHOOSE i \in 1..Len(rs) : rs[i].ID = id]

\* the fused score of id over the two legs: the sum of 1/(60 + r + 1)
HybridScore(id) ==
  RatAdd(Contribution(LexIDs, id), Contribution(idsFromRetrieved(VecTop), id))

\* the orders of the ids of both legs, each id once, by non-increasing
\* fused score
FusedOrders ==
  {f \in Perms(Range(LexIDs) \cup IdsOf(VecTop)) :
     \A i, j \in 1..Len(f) :
        i < j => ~RatGreater(HybridScore(f[j]), HybridScore(f[i]))}

\* C12: hybridRetrieve(query, k), k >= 1, returns at most k records, one
\* for each of the top-k fused ids in fused order; the record of an id of
\* the lexical fetch is the lexical-fetch record, and the vector-fetch
\* record is used only for an id that the vector list alone holds.
C12_HybridTopKPrefersLexical ==
  (HybridSucceeded /\ qK >= 1) =>
     LET out == Val(Val(qRes).out)
     IN /\ Len(out) <= qK
        /\ \E f \in FusedOrders :
              idsFromRetrieved(out) = SubSeq(f, 1, Min(qK, Len(f)))
        /\ \A i \in 1..Len(out) :
              IF out[i].ID \in IdsOf(LexTop)
              THEN out[i] = RecordOf(LexTop, out[i].ID)
              ELSE /\ out[i].ID \in IdsOf(VecTop)
                   /\ out[i].ID \notin Range(LexIDs)
                   /\ out[i] = RecordOf(VecTop, out[i].ID)

\* C12 witness: two records are returned; the first is held by both legs
\* and the two fetches differ on it, the second is held by the vector leg
\* only
C12_Witness ==
  /\ HybridSucceeded /\ qK = 2
  /\ Len(Val(Val(qRes).out)) = 2
  /\ LET out == Val(Val(qRes).out)
     IN /\ out[1].ID \in IdsOf(LexTop) \cap IdsOf(VecTop)
        /\ RecordOf(LexTop, out[1].ID) # RecordOf(VecTop, out[1].ID)
        /\ out[1] = RecordOf(LexTop, out[1].ID)
        /\ out[2].ID \in IdsOf(VecTop) \ IdsOf(LexTop)

\* ---- failures of the environment during the recorded call
\* the request that embeds the query failed, or c.Query returned an error
VectorLegFailed(env) == env.emb # "ok" \/ env.qryFail

\* the lexical ids hybridRetrieve(query, k) looks up
LexIDsFor(k) ==
  IF bm25Index = Nil THEN <<>>
  ELSE (CHOOSE s \in Search(bm25Index, qQuery, k) : TRUE).ids

\* c.Get is called when there are lexical ids, and returned an error
GetFailed(env, k) == env.getFail /\ Len(LexIDsFor(k)) > 0

\* C13: when embedding the query, the store's similarity query or the
\* store's get-by-ids call fails, vectorRetrieve, hybridRetrieve and
\* queryInternalKnowledge return an error and no result, never a
\* successful empty or one-leg result.
C13_QueryFailuresSurface ==
  /\ (qFn = "vector" /\ VectorLegFailed(Val(qEnv))) =>
        Val(qRes).err # Nil /\ Val(qRes).out = Nil
  /\ (qFn = "hybrid"
        /\ (VectorLegFailed(Val(qEnv)) \/ GetFailed(Val(qEnv), qK))) =>
        ~Val(qRes).panic /\ Val(qRes).err # Nil /\ Val(qRes).out = Nil
  /\ (qFn = "qik"
        /\ (\/ VectorLegFailed(Val(qEnv).doc)
            \/ GetFailed(Val(qEnv).doc, 4)
            \/ VectorLegFailed(Val(qEnv).mem))) =>
        Val(qRes).err # Nil /\ Val(qRes).text = <<>>

\* C13 witness: c.Get fails under queryInternalKnowledge while the vector
\* leg has records to offer, and the call returns the error
C13_Witness ==
  /\ qFn = "qik"
  /\ GetFailed(Val(qEnv).doc, 4)
  /\ ~VectorLegFailed(Val(qEnv).doc)
  /\ DOMAIN ragDocs # {}
  /\ Val(qRes).err = Some("get")
  /\ Val(qRes).text = <<>>

\* ---- the end-to-end scenario: one file of two paragraphs
\* the paragraphs of the single file of the data directory
FileParas == SplitParas(TrimSpace(disk[2].text), <<>>)

\* the data directory holds one file with two paragraphs, each shorter
\* than maxSize, and the run indexed it without any failure
TwoParagraphsIngested ==
  /\ Len(disk) = 2
  /\ Len(FileParas) = 2
  /\ \A i \in 1..2 : /\ TrimSpace(FileParas[i]) # <<>>
                     /\ Len(TrimSpace(FileParas[i])) < chunkLength
  /\ pc = "done" /\ ret = "ok"
  /\ Outcomes = {"dir", "indexed"}
  /\ UpsertFailed = {}

ParaTokens(i) == Range(tokenize(FileParas[i]))

\* the id ingestion gives to chunk i (0-based) of the file
ChunkId(i) == stableID(<<RagNS, disk[2].path, FmtD(i)>>)

\* the query holds a term that occurs in paragraph 2 and not in paragraph 1
HasTermOfPara2Only ==
  \E t \in Range(tokenize(qQuery)) : t \in ParaTokens(2) \ ParaTokens(1)

FirstIsPara2 ==
  LET out == Val(Val(qRes).out)
  IN /\ Len(out) >= 1
     /\ out[1].ID = ChunkId(1)
     /\ out[1] \in {RecordOf(LexTop, ChunkId(1))}

\* C14 as stated: after a failure-free ingestion of one file of two
\* paragraphs into an empty collection, a hybrid query holding a term that
\* occurs only in paragraph 2 returns the record of paragraph 2 first.
C14_Para2FirstAsStated ==
  (TwoParagraphsIngested /\ HybridSucceeded /\ HasTermOfPara2Only) =>
     FirstIsPara2

\* C14 amended: the same, for a query none of whose terms occurs in
\* paragraph 1 and for k >= 2 (the vector leg returns both chunks).
C14_Para2First ==
  (/\ TwoParagraphsIngested /\ HybridSucceeded /\ HasTermOfPara2Only
   /\ Range(tokenize(qQuery)) \cap ParaTokens(1) = {}
   /\ qK >= 2) =>
     FirstIsPara2

\* C14 witness: the vector leg ranks paragraph 1 first, the query is the
\* term z of paragraph 2, and the record of paragraph 2 comes first
C14_Witness ==
  /\ TwoParagraphsIngested /\ HybridSucceeded
  /\ qQuery = <<"z">> /\ qK = 2
  /\ idsFromRetrieved(VecTop) = <<ChunkId(0), ChunkId(1)>>
  /\ LexIDs = <<ChunkId(1)>>
  /\ FirstIsPara2
  /\ Len(Val(Val(qRes).out)) = 2

\* ======================================================================
\* Counts of a failure-free ingestion (specification Spec)
\* ======================================================================

\* the chunks chunkText makes of the files of the data directory
RECURSIVE TotalChunks(_)
TotalChunks(i) ==
  IF i > Len(disk) THEN 0
  ELSE (IF disk[i].isDir THEN 0
        ELSE Len(chunkText(TrimSpace(disk[i].text), chunkLength)))
       + TotalChunks(i + 1)

\* the run visited every entry and nothing failed
FailureFreeRun ==
  /\ pc = "done" /\ ret = "ok"
  /\ Len(visitLog) = Len(disk)
  /\ Outcomes \subseteq {"dir", "empty", "indexed"}
  /\ UpsertFailed = {}

\* C15: in an ingestion run without failures the number of upserts issued
\* equals the number of chunks of all files and the number of documents
\* of the rebuilt lexical index; one file of two paragraphs, each under
\* maxSize, gives 2 upserts and an index of size 2.
C15_UpsertsEqualChunksEqualIndex ==
  FailureFreeRun =>
     /\ Len(upsertLog) = TotalChunks(1)
     /\ bm25Index # Nil
     /\ Len(Val(bm25Index).docs) = TotalChunks(1)
     /\ TwoParagraphsIngested =>
           Len(upsertLog) = 2 /\ Len(Val(bm25Index).docs) = 2

\* C15 witness: the file "x\n\ny z" indexed without failure
C15_Witness ==
  /\ FailureFreeRun /\ TwoParagraphsIngested
  /\ Len(upsertLog) = 2
  /\ [i \in 1..2 |-> Val(bm25Index).docs[i].Text] = <<<<"x">>, <<"y", " ", "z">>>>

\* ======================================================================
\* chunkText as a function of the text and the chunk size
\* (specification SpecChunk)
\* ======================================================================
MaxTextLen   == 5   \* characters of a text passed to chunkText
MaxChunkSize == 3   \* largest chunkSize passed to chunkText

ChunkAlphabet == {"x", "y", " ", "\n"}

ChunkTexts == UNION {[1..n -> ChunkAlphabet] : n \in 0..MaxTextLen}

InitChunk ==
  /\ IdleIngest /\ IdleEmbed /\ IdleSearch /\ IdleFuse /\ IdleQuery /\ IdleId
  /\ IdleMain
  /\ bm25Index = Nil
  /\ cText \in ChunkTexts
  /\ cSize \in 0..MaxChunkSize
  /\ cRes = Nil

\* one call chunkText(cText, cSize)
ChunkCall ==
  /\ cRes = Nil
  /\ cRes' = Some(chunkText(cText, cSize))
  /\ UNCHANGED <<cText, cSize>>
  /\ UNCHANGED <<ingestVars, bm25Index, embedVars, searchVars, fuseVars,
                 queryVars, idVars, mainVars>>

NextChunk == ChunkCall

SpecChunk == InitChunk /\ [][NextChunk]_vars

\* the characters of s that are not white space, in order
NonSpace(s) == SelectSeq(s, LAMBDA c : ~IsSpace(c))

\* C16: for every text and every chunkSize >= 1 the call of chunkText
\* ends, no chunk it returns is longer than chunkSize characters and none
\* is empty.  Every pass of its loops appends a chunk that holds a
\* character of the text, so the chunks number at most the characters.
C16_ChunksBoundedNonEmpty ==
  (cRes # Nil /\ cSize >= 1) =>
     LET chunks == Val(cRes)
     IN /\ \A i \in 1..Len(chunks) :
              Len(chunks[i]) >= 1 /\ Len(chunks[i]) <= cSize
        /\ Len(chunks) <= Len(NonSpace(cText))

\* C16 witness: "xyx y" at chunkSize 2 is hard-wrapped into xy, x, y
C16_Witness ==
  /\ cText = <<"x", "y", "x", " ", "y">> /\ cSize = 2
  /\ cRes = Some(<< <<"x", "y">>, <<"x">>, <<"y">> >>)

\* C17: for every non-empty text the chunks of chunkText, concatenated in
\* order and stripped of white space, are the non-white-space characters
\* of the text in their order: none is lost, repeated or moved.
C17_ChunksKeepNonSpace ==
  (cRes # Nil /\ cText # <<>>) =>
     NonSpace(Flatten(Val(cRes))) = NonSpace(cText)

\* C17 witness: two paragraphs and a hard wrap inside the second
C17_Witness ==
  /\ cText = <<"x", "\n", "\n", "y", "x">>
  /\ cSize = 1
  /\ cRes = Some(<< <<"x">>, <<"y">>, <<"x">> >>)

\* ======================================================================
\* stableID as a function of (namespace, path, ordinal)
\* (specification SpecId)
\* ======================================================================
MaxPartLen == 2   \* characters of a namespace or a path

IdAlphabet == {"a", "|"}

IdStrings == UNION {[1..n -> IdAlphabet] : n \in 0..MaxPartLen}

\* (namespace, path, ordinal)
IdTriples == IdStrings \X IdStrings \X (0..1)

InitId ==
  /\ IdleIngest /\ IdleEmbed /\ IdleSearch /\ IdleFuse /\ IdleQuery /\ IdleChunk
  /\ IdleMain
  /\ bm25Index = Nil
  /\ idA \in IdTriples
  /\ idB \in IdTriples
  /\ idRes = Nil

\* stableID(ns, path, fmt.Sprintf("%d", i)), as at lines 164-168
IdOf(t) == stableID(<<t[1], t[2], FmtD(t[3])>>)

\* the id of idA, the id of idB, and the id of idA once more
IdCall ==
  /\ idRes = Nil
  /\ idRes' = Some([a |-> IdOf(idA), b |-> IdOf(idB), again |-> IdOf(idA)])
  /\ UNCHANGED <<idA, idB>>
  /\ UNCHANGED <<ingestVars, bm25Index, embedVars, searchVars, fuseVars,
                 queryVars, chunkVars, mainVars>>

NextId == IdCall

SpecId == InitId /\ [][NextId]_vars

\* C18: stableID is a function of its parts, and two triples (namespace,
\* path, ordinal) that differ in a component get different ids: the
\* strings that are hashed differ.
C18_StableIdInjective ==
  idRes # Nil =>
     /\ Val(idRes).a = Val(idRes).again
     /\ idA # idB => Val(idRes).a # Val(idRes).b

\* ======================================================================
\* Re-ingestion of an unchanged corpus (specification Spec)
\* ======================================================================

\* C19: ingestion is idempotent: a failure-free run over the corpus that
\* a failure-free run of the previous process ingested leaves rag_docs
\* with the same ids, texts, vectors and metadata, and builds a lexical
\* index equal to the one the previous run built.
C19_ReingestionIdempotent ==
  (run >= 2 /\ CleanRun /\ lastCleanRun # Nil) =>
     /\ ragDocs = Val(lastCleanRun).ragDocs
     /\ bm25Index = Val(lastCleanRun).bm25Index

\* C19 witness: the second failure-free run over two files, three chunks
C19_Witness ==
  /\ run = 2 /\ CleanRun /\ lastCleanRun # Nil
  /\ Len(upsertLog) = 3
  /\ Cardinality(DOMAIN ragDocs) = 3
  /\ bm25Index # Nil /\ Len(Val(bm25Index).docs) = 3

\* ======================================================================
\* The text queryInternalKnowledge returns (specification SpecQuery)
\* ======================================================================

\* the results hybridRetrieve(ragDocsCollection, query, 4) can give in the
\* recorded call of queryInternalKnowledge, and the result of
\* vectorRetrieve(conversationCollection, query, 3)
QikDocLeg ==
  hybridRetrieve(ragDocsCollection, ragDocs, qQuery, 4, Val(qEnv).doc)

QikMemLeg ==
  vectorRetrieve(conversationCollection, convDocs, qQuery, 3, Val(qEnv).mem)

\* "Doc i (source: s):" and "Memory i:", each followed by a line break and
\* the text of the record
DocEntry(i, r) ==
  <<"D", "o", "c", " ">> \o FmtD(i) \o <<" ", "(", "s", "o", "u", "r", "c",
    "e", ":", " ">> \o r.Source \o <<")", ":", "\n">> \o r.Text

MemEntry(i, r) ==
  <<"M", "e", "m", "o", "r", "y", " ">> \o FmtD(i) \o <<":", "\n">> \o r.Text

\* the document section, then the conversation section, each present when
\* it has records, the parts separated by a blank line
Listing(docs, mems) ==
  LET docPart == IF docs = <<>> THEN <<>>
                 ELSE <<DocsHeader>> \o [i \in 1..Len(docs) |-> DocEntry(i, docs[i])]
      memPart == IF mems = <<>> THEN <<>>
                 ELSE <<MemHeader>> \o [i \in 1..Len(mems) |-> MemEntry(i, mems[i])]
      parts   == docPart \o memPart
  IN Flatten([i \in 1..Len(parts) |->
                IF i = 1 THEN parts[i] ELSE <<"\n", "\n">> \o parts[i]])

\* C20: queryInternalKnowledge returns the fixed "No relevant information"
\* message exactly when the hybrid document retrieval and the vector
\* retrieval over the conversation memory both succeed and both return no
\* record; otherwise, when it succeeds, its text lists the document
\* results (if any) before the conversation results (if any), each in
\* retrieval order.
C20_QueryInternalKnowledgeText ==
  qFn = "qik" =>
     LET res == Val(qRes)
         bothEmpty ==
           /\ \E h \in QikDocLeg : h.err = Nil /\ Val(h.out) = <<>>
           /\ QikMemLeg.err = Nil /\ Val(QikMemLeg.out) = <<>>
     IN /\ (res.err = Nil /\ res.text = NoInfoMsg) <=> bothEmpty
        /\ (res.err = Nil /\ ~bothEmpty) =>
              \E h \in QikDocLeg :
                 /\ h.err = Nil /\ QikMemLeg.err = Nil
                 /\ res.text = Listing(Val(h.out), Val(QikMemLeg.out))

\* C20 witness: two document records and two conversation records listed
C20_Witness ==
  /\ qFn = "qik" /\ Val(qRes).err = Nil
  /\ \E h \in QikDocLeg : h.err = Nil /\ Len(Val(h.out)) = 2
  /\ Len(Val(QikMemLeg.out)) = 2
  /\ SubSeq(Val(qRes).text, 1, Len(DocsHeader)) = DocsHeader
  /\ Val(qRes).text # NoInfoMsg

\* ======================================================================
\* Publication of the lexical index (specification SpecQuery)
\* ======================================================================

\* the published index is the one NewBM25Index builds over the corpus list
\* of a walk that visited every entry
IndexIsComplete ==
  /\ pc = "done" /\ ret = "ok"
  /\ Len(visitLog) = Len(disk)
  /\ CorpusIds = UpsertedOk
  /\ bm25Index = Some(NewBM25Index(corpus))

\* C21: bm25Index is only replaced wholesale: in every state it is nil or
\* the index NewBM25Index built over the complete corpus list of a finished
\* walk; a step changes it at most once per run, from nil, when the walk
\* has ended, and no Search and no query changes it.
C21_IndexReplacedWholesale ==
  /\ [](bm25Index # Nil => IndexIsComplete)
  /\ [][bm25Index' # bm25Index =>
          /\ bm25Index = Nil
          /\ pc = "walk" /\ entryIdx = Len(disk)
          /\ qFn = "none" /\ qFn' = "none"
          /\ bm25Index' = Some(NewBM25Index(corpus'))]_vars

\* C21 witness: a hybrid query has searched a published index of two
\* documents and left it as it was built
C21_Witness ==
  /\ qFn = "hybrid" /\ bm25Index # Nil
  /\ Len(Val(bm25Index).docs) >= 2
  /\ Len(LexIDs) >= 1
  /\ IndexIsComplete

\* ------------------------------------------------- ties in BM25Index.Search
\* C22: in the result of Search, documents with equal BM25 score appear in
\* corpus insertion order, the order in which they were passed to
\* NewBM25Index (so every call with the same index, query and k returns the
\* same list).
C22_TiesInInsertionOrder ==
  (sRes # Nil /\ ~Val(sRes).panic) =>
     \A i \in 1..Len(ResIds) : \A j \in 1..Len(ResIds) :
        (i < j /\ ScoreOf(DocIndex(ResIds[i])) = ScoreOf(DocIndex(ResIds[j])))
           => DocIndex(ResIds[i]) < DocIndex(ResIds[j])

\* the same statement for the corpora sort.Slice sorts by insertion
C22_UpToInsertionSortLimit == NDocs <= InsertionSortLimit => C22_TiesInInsertionOrder

\* ======================================================================
\* Embed on either implementation of the interface Embedder
\* (specification SpecEmbedders)
\* ======================================================================

\* one call of teiEmbedder.Embed with t.batch = eBatch
TeiEmbedCall ==
  /\ eRes = Nil
  /\ \E replies \in [1..NumBatches(Len(eChunks), eBatch) -> ReplyKinds] :
        /\ eReplies' = replies
        /\ eRes' = Some(teiEmbed(eChunks, eBatch, replies))
  /\ eImpl' = "teiEmbedder"
  /\ UNCHANGED <<eChunks, eBatch>>
  /\ UNCHANGED <<ingestVars, bm25Index, searchVars, fuseVars, queryVars, chunkVars, idVars, mainVars>>

NextEmbedders == EmbedCall \/ TeiEmbedCall

SpecEmbedders == InitEmbed /\ [][NextEmbedders]_vars

\* C23: every implementation of Embedder, teiEmbedder included, returns no
\* partial map: for n chunks with distinct ids, also when n exceeds the
\* batch size, Embed returns an error or a map that holds a vector for every
\* one of the n input ids.
C23_NoPartialMap ==
  (eRes # Nil /\ DistinctIds(eChunks)) =>
     \/ Val(eRes).err
     \/ /\ Val(eRes).out # Nil
        /\ ChunkIds(eChunks) \subseteq DOMAIN Val(Val(eRes).out)

\* the same statement for hfEmbedder alone, and for teiEmbedder on inputs
\* of at most one batch
C23_HfNoPartialMap == eImpl = "hfEmbedder" => C23_NoPartialMap
C23_TeiWithinOneBatch ==
  (eImpl = "teiEmbedder" /\ Len(eChunks) <= eBatch) => C23_NoPartialMap

\* ======================================================================
\* main from its first line to its last (specification SpecMain)
\* ======================================================================

\* What main finds: the two keys of the configuration ("" when unset), the
\* prompt os.Args[1] (Nil when there is no argument), and the first service
\* that fails: "chroma" (initChroma), "rag_docs" and "conversation_memory"
\* (the two GetOrCreateCollection calls), "llm" (openai.New), "agentInit"
\* (agents.Initialize), "run" (chains.Run), or "none"
MainFailPoints ==
  {"none", "chroma", "rag_docs", "conversation_memory", "llm", "agentInit", "run"}

MainEnvOf(orKey, hfKey, prompt, fail) ==
  [openRouterKey |-> orKey, hfKey |-> hfKey, prompt |-> prompt, fail |-> fail]

\* the complete environment with each service failure, and the
\* environments that lack a key or the prompt
MainEnvs ==
  {MainEnvOf("k", "k", Some(<<"x">>), f) : f \in MainFailPoints}
  \cup {MainEnvOf("", "k", Some(<<"x">>), "none"),
        MainEnvOf("k", "", Some(<<"x">>), "none"),
        MainEnvOf("k", "", Some(<<"x">>), "chroma"),
        MainEnvOf("k", "k", Nil, "none")}

\* the answers of the agent and the readings of the clock
Responses == {<<"y">>, <<"g">>}
Timestamps == {<<"1">>, <<"3">>}

NewEmbedderFromEnv(hfAPIKey) ==
  IF hfAPIKey = ""
  THEN [emb |-> Nil, err |-> Some("missing HF_API_KEY in config")]
  ELSE [emb |-> Some("hfEmbedder"), err |-> Nil]

InitMain ==
  /\ dirExists = TRUE
  /\ disk \in QueryDisks
  /\ chunkLength \in ChunkLengths
  /\ pc = "start" /\ entryIdx = 0 /\ corpus = <<>> /\ documentChunks = 0
  /\ ret = "none" /\ run = 1
  /\ bm25Index = Nil
  /\ ragDocs = EmptyMap
  /\ ragDocsCollection = Nil
  /\ hfEmbedderConcrete = Nil
  /\ upsertLog = <<>> /\ visitLog = <<>> /\ lastCleanRun = Nil
  /\ IdleEmbed /\ IdleSearch /\ IdleFuse /\ IdleChunk /\ IdleId
  /\ conversationCollection = Nil
  /\ convDocs \in ConvStores
  /\ qFn = "none" /\ qQuery = <<>> /\ qK = 0 /\ qEnv = Nil /\ qRes = Nil
  /\ mainPc = "start"
  /\ mainEnv \in MainEnvs
  /\ storeCall = Nil

\* log.Fatal: the process exits; got is what was assigned to the globals
\* ragDocsCollection, conversationCollection and hfEmbedderConcrete before
Fatal(got) ==
  /\ mainPc' = "fatal"
  /\ ragDocsCollection' = got[1]
  /\ conversationCollection' = got[2]
  /\ hfEmbedderConcrete' = got[3]

\* lines 283-330: configuration, arguments, store client, collections,
\* embedder, LLM client
Startup ==
  /\ mainPc = "start"
  /\ LET rag  == Some("rag_docs")
         conv == Some("conversation_memory")
         e    == NewEmbedderFromEnv(mainEnv.hfKey)
     IN IF mainEnv.openRouterKey = "" THEN Fatal(<<Nil, Nil, Nil>>)
        ELSE IF mainEnv.hfKey = "" THEN Fatal(<<Nil, Nil, Nil>>)
        ELSE IF mainEnv.prompt = Nil THEN Fatal(<<Nil, Nil, Nil>>)
        ELSE IF mainEnv.fail = "chroma" THEN Fatal(<<Nil, Nil, Nil>>)
        ELSE IF mainEnv.fail = "rag_docs" THEN Fatal(<<Nil, Nil, Nil>>)
        ELSE IF mainEnv.fail = "conversation_memory" THEN Fatal(<<rag, Nil, Nil>>)
        ELSE IF e.err # Nil THEN Fatal(<<rag, conv, e.emb>>)
        ELSE IF mainEnv.fail = "llm" THEN Fatal(<<rag, conv, e.emb>>)
        ELSE /\ mainPc' = "ingest"
             /\ ragDocsCollection' = rag
             /\ conversationCollection' = conv
             /\ hfEmbedderConcrete' = e.emb
  /\ UNCHANGED <<dirExists, disk, chunkLength, pc, entryIdx, corpus, documentChunks,
                 ret, run, ragDocs, upsertLog, visitLog, lastCleanRun, bm25Index>>
  /\ UNCHANGED <<convDocs, qFn, qQuery, qK, qEnv, qRes, mainEnv, storeCall>>
  /\ UNCHANGED <<embedVars, searchVars, fuseVars, chunkVars, idVars>>

\* line 333: loadDocumentsFromDataDir runs inside main
MainBegin  == mainPc = "ingest" /\ Begin
MainVisit  == mainPc = "ingest" /\ Visit
MainFinish == mainPc = "ingest" /\ Finish

\* InitAgent, were the error of loadDocumentsFromDataDir fatal
InitAgentIngestFatal ==
  /\ mainPc = "ingest" /\ pc = "done"
  /\ mainPc' = IF mainEnv.fail = "agentInit" \/ ret = "err" THEN "fatal" ELSE "agent"
  /\ UNCHANGED <<ingestVars, bm25Index, embedVars, searchVars, fuseVars, queryVars,
                 chunkVars, idVars, mainEnv, storeCall>>

\* lines 333-363: loadDocumentsFromDataDir has returned, its error is only
\* logged; the history is printed; agents.Initialize
InitAgent ==
  /\ mainPc = "ingest" /\ pc = "done"
  /\ mainPc' = IF mainEnv.fail = "agentInit" THEN "fatal" ELSE "agent"
  /\ UNCHANGED <<ingestVars, bm25Index, embedVars, searchVars, fuseVars, queryVars,
                 chunkVars, idVars, mainEnv, storeCall>>

\* during chains.Run (line 368) the agent calls InternalKnowledgeTool.Call,
\* which is queryInternalKnowledge(ctx, input)
AgentQuery ==
  /\ mainPc = "agent" /\ qFn = "none"
  /\ \E query \in QueryTexts,
        envDoc \in Envs(ragDocs, {"full"}, {"none", "embed", "query", "get"}),
        envMem \in Envs(convDocs, {"full"}, {"none", "embed", "query"}) :
       /\ qFn' = "qik"
       /\ qQuery' = query
       /\ qK' = 0
       /\ qEnv' = Some([doc |-> envDoc, mem |-> envMem])
       /\ \E r \in queryInternalKnowledge(query, envDoc, envMem) :
            qRes' = Some(r)
  /\ UNCHANGED <<conversationCollection, convDocs>>
  /\ UNCHANGED <<ingestVars, bm25Index, embedVars, searchVars, fuseVars,
                 chunkVars, idVars, mainVars>>

\* lines 368-371: chains.Run returns
AgentReturns ==
  /\ mainPc = "agent"
  /\ mainPc' = IF mainEnv.fail = "run" THEN "fatal" ELSE "store"
  /\ UNCHANGED <<ingestVars, bm25Index, embedVars, searchVars, fuseVars, queryVars,
                 chunkVars, idVars, mainEnv, storeCall>>

\* what a call of storeConversationHistory did: the id it computed, whether
\* Embed and chromaUpsert failed, the ids passed to c.Upsert
Stored(id, embedErr, upsertErr, upserts) ==
  [id |-> id, embedErr |-> embedErr, upsertErr |-> upsertErr, upserts |-> upserts]

\* storeConversationHistory that upserts whatever Embed returned
storeConversationHistoryNoEmbedCheck(userMsg, assistantMsg, ts, reply, storeOk) ==
  LET rec == ConvRecord(ts, userMsg, assistantMsg)
      id  == ConvId(ts, userMsg, assistantMsg)
      res == Embed(<<[ID |-> id, Text |-> rec.doc]>>, EmbedBatchSize, <<reply>>)
  IN IF conversationCollection = Nil \/ hfEmbedderConcrete = Nil
     THEN [coll |-> convDocs, call |-> Stored(id, FALSE, FALSE, <<>>)]
     ELSE LET r == chromaUpsert(conversationCollection, convDocs, id, rec.doc,
                                rec.vec, rec.meta, storeOk)
          IN [coll |-> r.coll, call |-> Stored(id, res.err, r.err, <<id>>)]

\* storeConversationHistory(ctx, userMsg, assistantMsg) at clock reading ts:
\* the collection conversation_memory after the call, and what the call did
storeConversationHistory(userMsg, assistantMsg, ts, reply, storeOk) ==
  LET rec == ConvRecord(ts, userMsg, assistantMsg)
      id  == ConvId(ts, userMsg, assistantMsg)
      res == Embed(<<[ID |-> id, Text |-> rec.doc]>>, EmbedBatchSize, <<reply>>)
  IN IF conversationCollection = Nil \/ hfEmbedderConcrete = Nil
     THEN [coll |-> convDocs, call |-> Stored(id, FALSE, FALSE, <<>>)]
     ELSE IF res.err
     THEN [coll |-> convDocs, call |-> Stored(id, TRUE, FALSE, <<>>)]
     ELSE LET r == chromaUpsert(conversationCollection, convDocs, id, rec.doc,
                                VecGet(Val(res.out), id), rec.meta, storeOk)
          IN [coll |-> r.coll, call |-> Stored(id, FALSE, r.err, <<id>>)]

\* lines 378-382: the turn is persisted and main returns
StoreConversationHistoryCall ==
  /\ mainPc = "store"
  /\ \E assistantMsg \in Responses, ts \in Timestamps,
        reply \in ReplyKinds, storeOk \in BOOLEAN :
       LET s == storeConversationHistory(Val(mainEnv.prompt), assistantMsg, ts,
                                         reply, storeOk)
       IN /\ reply # "ok" => storeOk
          /\ convDocs' = s.coll
          /\ storeCall' = Some([userMsg |-> Val(mainEnv.prompt),
                                assistantMsg |-> assistantMsg,
                                did |-> s.call])
  /\ mainPc' = "exited"
  /\ UNCHANGED <<conversationCollection, qFn, qQuery, qK, qEnv, qRes, mainEnv>>
  /\ UNCHANGED <<ingestVars, bm25Index, embedVars, searchVars, fuseVars,
                 chunkVars, idVars>>

NextMain ==
  \/ Startup
  \/ MainBegin \/ MainVisit \/ MainFinish
  \/ InitAgent \/ AgentQuery \/ AgentReturns
  \/ StoreConversationHistoryCall

SpecMain == InitMain /\ [][NextMain]_vars

\* an environment in which the store client, a collection or the embedding
\* credential is missing
StartupDependencyFails ==
  \/ mainEnv.hfKey = ""
  \/ mainEnv.fail \in {"chroma", "rag_docs", "conversation_memory"}

\* main has passed the call of loadDocumentsFromDataDir
AfterIngestion == mainPc \in {"agent", "store", "exited"}

IndexedIds ==
  IF bm25Index = Nil THEN {}
  ELSE {Val(bm25Index).docs[i].ID : i \in 1..Len(Val(bm25Index).docs)}

\* an id built in the namespace "conv"
IsConvId(id) == Len(id) >= 5 /\ SubSeq(id, 1, 5) = <<"c", "o", "n", "v", "|">>

\* C25: storeConversationHistory changes only the conversation collection.
\* It leaves the document collection and the lexical index as they are;
\* when Embed and the upsert succeed it upserts exactly one record, the text
\* "User: <user>\nAssistant: <assistant>", and every other record stays;
\* when Embed fails it upserts nothing.  No conversation id is ever in the
\* lexical index.
C25_StoreChangesOnlyConversations ==
  /\ [](\A id \in IndexedIds : ~IsConvId(id) /\ id \notin DOMAIN convDocs)
  /\ [][storeCall' # storeCall =>
          LET c   == Val(storeCall')
              did == c.did
          IN /\ UNCHANGED <<ragDocs, bm25Index, corpus, documentChunks>>
             /\ IsConvId(did.id)
             /\ \A id \in DOMAIN convDocs :
                   id # did.id => (id \in DOMAIN convDocs' /\ convDocs'[id] = convDocs[id])
             /\ (DOMAIN convDocs') \ (DOMAIN convDocs) \subseteq {did.id}
             /\ (~did.embedErr /\ ~did.upsertErr) =>
                   /\ did.upserts = <<did.id>>
                   /\ did.id \in DOMAIN convDocs'
                   /\ convDocs'[did.id].doc =
                        <<"U", "s", "e", "r", ":", " ">> \o c.userMsg
                          \o <<"\n", "A", "s", "s", "i", "s", "t", "a", "n", "t", ":", " ">>
                          \o c.assistantMsg
             /\ did.embedErr => (did.upserts = <<>> /\ convDocs' = convDocs)
             /\ did.upsertErr => convDocs' = convDocs]_vars

\* C25 witness: after an ingestion that built a non-empty index, the turn
\* was embedded and stored next to the two earlier exchanges
C25_Witness ==
  /\ mainPc = "exited" /\ storeCall # Nil
  /\ ~Val(storeCall).did.embedErr /\ ~Val(storeCall).did.upsertErr
  /\ Cardinality(DOMAIN convDocs) = 3
  /\ IndexedIds # {}
  /\ DOMAIN ragDocs = IndexedIds

\* ---------------------------------------------- hybridRetrieve on one leg
\* the ids of a list of records are pairwise different
DistinctRecords(rs) == Cardinality(IdsOf(rs)) = Len(rs)

\* C26: a successful hybridRetrieve(query, k) with k >= 1 whose lexical leg
\* yields no ids (bm25Index nil or empty, or no document matches) and whose
\* vector leg returns distinct ids returns exactly the vector leg's records
\* in the vector leg's order; when the vector leg returns no ids it returns
\* the records of the lexical ids in lexical rank order.
C26_SingleLegPassesThrough ==
  (HybridSucceeded /\ qK >= 1) =>
     /\ (LexIDs = <<>> /\ DistinctRecords(VecTop)) =>
           Val(qRes).out = Some(VecTop)
     /\ VecTop = <<>> =>
           /\ Val(qRes).out = Some(LexTop)
           /\ [i \in 1..Len(LexTop) |-> LexTop[i].ID] = LexIDs

\* C26 witness: no document matches the query, the vector leg returned two
\* records, and the call returned them
C26_Witness ==
  /\ HybridSucceeded /\ qK = 2
  /\ bm25Index # Nil /\ Len(Val(bm25Index).docs) >= 2
  /\ LexIDs = <<>>
  /\ Len(VecTop) = 2 /\ DistinctRecords(VecTop)
  /\ Val(qRes).out = Some(VecTop)

\* the other leg: the store answered c.Query without result lists, two
\* documents match the query, and the call returned their records
C26_WitnessLexicalOnly ==
  /\ HybridSucceeded /\ qK = 2
  /\ VecTop = <<>>
  /\ Len(LexIDs) = 2
  /\ Val(qRes).out = Some(LexTop)
====
